---- MODULE Spec2Model ----
(***************************************************************************)
(* State-machine model of the context-aware classification engine of the   *)
(* study-distraction detector (StateDetectionLogic/driver_state_detection).*)
(*                                                                         *)
(* Number representation (the source uses Python floats):                  *)
(*   - head pitch is an integer number of degrees;                         *)
(*   - gaze deviation is an integer number of hundredths (0.3 -> 30);      *)
(*   - severity is an integer number of tenths (0.8 -> 8);                 *)
(*   - threshold_seconds is an integer number of half seconds, fps is an   *)
(*     integer, so that threshold_seconds * fps is exact in binary floats. *)
(*   - eye-aspect ratio (ear) samples are integers in thousandths; the ear *)
(*     threshold is kept in fortieths of a thousandth (0.15 -> 6000), the  *)
(*     gaze threshold in fortieths of a hundredth (0.2 -> 800), so that a  *)
(*     quartile times 0.9 or 1.2 is an integer;                            *)
(*   - the pitch, yaw and roll thresholds are in hundredths of a degree,   *)
(*     mean and standard deviation rounded down to that unit.              *)
(*   - the engagement score of the pattern recognizer is an integer number *)
(*     of tenths (0.5 -> 5).                                               *)
(*   - a Firestore timestamp is an integer number of milliseconds on one   *)
(*     clock; focusScore is the exact fraction num/den of a percentage.    *)
(* An Optional[float] is <<>> for None and <<v>> for the value v.          *)
(* detected_objects is the set of labels the dict maps to True, so that    *)
(* dict.get(label, False) is membership.                                   *)
(***************************************************************************)
EXTENDS Integers, Sequences, FiniteSets, TLC

VARIABLES
    activity_history,   \* ContextAnalyzer.activity_history, a deque(maxlen=30)
    current_activity,   \* ContextAnalyzer.current_activity
    arg,                \* arguments of the latest analyze_context call
    ret,                \* triple returned by the latest analyze_context call
    pre_history,        \* activity_history as the latest call found it
    returned,           \* activities returned by all calls so far, oldest first
    sus_arg,            \* arguments of the latest is_sustained_distraction call
    sus_ret,            \* its result
    user_id,            \* AdaptiveAttentionScorer.user_id
    calibration_file,   \* AdaptiveAttentionScorer.calibration_file
    thresh,             \* the five thresholds, keyed as get_thresholds keys them
    is_calibrated,      \* AdaptiveAttentionScorer.is_calibrated
    calibration_data,   \* AdaptiveAttentionScorer.calibration_data
    anomaly_history,    \* ear_history, gaze_history and pitch_history
    files,              \* the file system: content of every calibration file
    op,                 \* the latest scorer operation, its arguments and result
    pre,                \* the scorer and the files as that operation found them
    last_get,           \* result of the latest get_thresholds call of this
                        \* scorer, if no finalize_calibration succeeded since
    finalized,          \* thresholds computed by the latest successful
                        \* finalize_calibration of this scorer, and how its save went
    anomaly_log,        \* arguments of the detect_anomaly calls of this scorer
    adds,               \* add_calibration_sample calls made so far
    finalizes,          \* finalize_calibration calls made so far
    constructs,         \* scorers constructed after the first one
    window_size,        \* PatternRecognizer.window_size
    gaze_window,        \* PatternRecognizer.gaze_window, a deque(maxlen=window_size)
    pitch_window,       \* PatternRecognizer.pitch_window
    ear_window,         \* PatternRecognizer.ear_window
    pr_log,             \* arguments of the add_sample calls of this recognizer
    pr_op,              \* the latest recognizer operation and its result
    pr_pre,             \* the three windows as that operation found them
    script,             \* the signal the frames of this behaviour are read from
    sessions,           \* Firestore collection sessionServer: document i is
                        \* the session whose id is i
    intervals,          \* the distractedIntervals documents of all sessions,
                        \* in the order they were written
    now,                \* the clock _utcnow and SERVER_TIMESTAMP read
    frames,             \* per thread: the store call or request in progress
    session_store,      \* server.py global session_store
    session_id,         \* server.py global session_id
    session_username,   \* server.py global session_username
    proc,               \* server.py global proc: the vision process
    light_on_state,     \* server.py global light_on_state
    sv_op,              \* the latest completed store call or request
    sv_pre,             \* the documents and globals as it found them
    docs_at_stop,       \* number of session documents when the held session
                        \* was last cleared
    sv_calls,           \* store calls and requests made so far
    sv_stamps,          \* per session: the timestamp of the latest store call
                        \* on it, and whether the timestamps of its calls
                        \* were non-decreasing so far
    od_enabled,         \* ObjectDetector.enabled and model is not None
    detection_history,  \* ObjectDetector.detection_history
    od_op,              \* the latest detect_objects call: raw detections, result
    od_calls,           \* detect_objects calls made so far
    driver,             \* which driver runs: main.py or enhanced_main.py
    last_distracted,    \* the driver's local last_distracted
    last_face_detected, \* the driver's local last_face_detected
    face_not_detected_time, \* the driver's timer, in half seconds
    face_detected_time, \* the driver's timer, in half seconds
    distraction_start_time, \* enhanced_main's local, None or a reading of t_now
    t_now,              \* the driver's t_now, in half seconds since start_time
    dr_op,              \* the latest loop iteration: its inputs and its posts
    dr_pre,             \* the driver's locals as that iteration found them
    dr_count,           \* loop iterations run so far
    last_light,         \* the latest /light command the driver posted
    path_light,         \* the latest /light command of the distraction path
    path_edge           \* the latest /session/edge post of the distraction path

vars == <<activity_history, current_activity, arg, ret, pre_history, returned,
          sus_arg, sus_ret, user_id, calibration_file, thresh, is_calibrated,
          calibration_data, anomaly_history, files, op, pre, last_get,
          finalized, anomaly_log, adds, finalizes, constructs, window_size,
          gaze_window, pitch_window, ear_window, pr_log, pr_op, pr_pre, script,
          sessions, intervals, now, frames, session_store, session_id,
          session_username, proc, light_on_state, sv_op, sv_pre, docs_at_stop,
          sv_calls, sv_stamps, od_enabled, detection_history, od_op, od_calls,
          driver, last_distracted, last_face_detected, face_not_detected_time,
          face_detected_time, distraction_start_time, t_now, dr_op, dr_pre,
          dr_count, last_light, path_light, path_edge>>

scVars == <<user_id, calibration_file, thresh, is_calibrated, calibration_data,
            anomaly_history, files, op, pre, last_get, finalized, anomaly_log,
            adds, finalizes, constructs>>

prVars == <<window_size, gaze_window, pitch_window, ear_window, pr_log, pr_op,
            pr_pre, script>>

svVars == <<sessions, intervals, now, frames, session_store, session_id,
            session_username, proc, light_on_state, sv_op, sv_pre, docs_at_stop,
            sv_calls, sv_stamps>>

odVars == <<od_enabled, detection_history, od_op, od_calls>>

drVars == <<driver, last_distracted, last_face_detected, face_not_detected_time,
            face_detected_time, distraction_start_time, t_now, dr_op, dr_pre,
            dr_count, last_light, path_light, path_edge>>

caCallVars == <<activity_history, current_activity, arg, ret, pre_history, returned>>
susVars == <<sus_arg, sus_ret>>

-----------------------------------------------------------------------------
(* Bounds of the exploration *)

MaxCalls == 17        \* analyze_context calls in one behaviour of Spec
MaxSwitches == 2      \* changes of activity between consecutive calls in Spec
MaxWindowCalls == 32  \* analyze_context calls in one behaviour of SpecWindow
MaxWindowSwitches == 1 \* changes of activity between consecutive calls in SpecWindow
MaxWarmup == 1        \* calls made before the classified call in SpecClassify
MaxRun == 16          \* length of the steady run before the call in SpecVerdict
MaxSusCalls == 6      \* analyze_context calls in one behaviour of SpecSustained
MaxLongCalls == 32    \* analyze_context calls in one behaviour of SpecSustainedFull
MaxLongSwitches == 1  \* changes of activity between consecutive calls in SpecSustainedFull
MaxDetectCalls == 9   \* detect_objects calls in one behaviour of SpecDetector
MaxDriverFrames == 6  \* loop iterations in one behaviour of SpecDrivers
MaxAdds == 2          \* add_calibration_sample calls in one behaviour of SpecScorer
MaxFinalizes == 2    \* finalize_calibration calls in one behaviour of SpecScorer
MaxConstructs == 2    \* scorers constructed after the first in SpecScorer
MaxSessionAdds == 2   \* add_calibration_sample calls in one behaviour of SpecSession
MaxSessionFinalizes == 2 \* finalize_calibration calls in one behaviour of SpecSession
MaxSessionAnomalyCalls == 1 \* detect_anomaly calls in one behaviour of SpecSession
MaxAnomalyCalls == 31 \* detect_anomaly calls in one behaviour of SpecAnomaly
MaxAnomalySwitches == 1 \* changes of sample between consecutive calls in SpecAnomaly
MaxFrames == 62       \* add_sample calls on one recognizer in SpecPatterns
MaxBufferFrames == 102 \* frames fed to recognizer and scorer in SpecBuffers
MaxTime == 2          \* milliseconds the clock advances in one behaviour
MaxStoreSessions == 1 \* session documents created in one behaviour of SpecStore
MaxStoreCalls == 4    \* store calls in one behaviour of SpecStore
MaxOneSessionCalls == 6 \* store calls in one behaviour of SpecOneSession
MaxThreadCalls == 4   \* store calls in one behaviour of SpecStoreThreads
MaxRequests == 4      \* requests in one behaviour of SpecServer
MaxThreadRequests == 3 \* requests in one behaviour of SpecServerThreads

-----------------------------------------------------------------------------
(* class ActivityType *)

FOCUSED_STUDYING == "focused_studying"
READING_BOOK == "reading_book"
TAKING_NOTES == "taking_notes"
TYPING == "typing"
THINKING == "thinking"
PHONE_DISTRACTION == "phone_distraction"
DRINKING_WATER == "drinking_water"
LOOKING_AWAY == "looking_away"
FACE_MISSING == "face_missing"
UNKNOWN == "unknown"

ActivityType == {FOCUSED_STUDYING, READING_BOOK, TAKING_NOTES, TYPING, THINKING,
                 PHONE_DISTRACTION, DRINKING_WATER, LOOKING_AWAY, FACE_MISSING,
                 UNKNOWN}

(* ContextAnalyzer.__init__: thresholds *)
READING_PITCH_RANGE == <<-45, -25>>
NOTE_TAKING_PITCH_RANGE == <<-50, -30>>
PHONE_PITCH_THRESHOLD == -60
THINKING_GAZE_THRESHOLD == 30
HISTORY_MAXLEN == 30

\* the defaults of is_sustained_distraction: threshold_seconds = 3.0, in half
\* seconds, and fps = 30.0
DEFAULT_THRESHOLD_HALVES == 6
DEFAULT_FPS == 30

-----------------------------------------------------------------------------
(* Helpers for Python values *)

None == <<>>
Some(v) == <<v>>
Val(x) == x[1]
Abs(x) == IF x < 0 THEN -x ELSE x

\* variant: a full buffer keeps its oldest entries and drops the new one
DequeAppendKeepOldest(q, x, maxlen) ==
    IF Len(q) >= maxlen THEN q ELSE Append(q, x)

\* deque(maxlen=n).append(x): the oldest entry is dropped when the deque is full
DequeAppend(q, x, maxlen) ==
    IF Len(q) >= maxlen THEN Append(Tail(q), x) ELSE Append(q, x)

\* sum(1 for a in seq if a in S)
CountIn(seq, S) == Cardinality({i \in 1..Len(seq) : seq[i] \in S})

\* list(seq)[-n:] for n >= 1 (the last n entries, all of them when n > len)
LastN(seq, n) ==
    IF n >= Len(seq) THEN seq ELSE SubSeq(seq, Len(seq) - n + 1, Len(seq))

-----------------------------------------------------------------------------
(* ContextAnalyzer._classify_activity *)

\* variant: the reading rule is tried before the phone rule
classify_reading_first(pitch, yaw, gaze, ear, has_book, has_phone, has_laptop, has_bottle, has_cup) ==
    IF pitch = None THEN UNKNOWN
    ELSE IF (has_bottle \/ has_cup) /\ Val(pitch) > -15 THEN DRINKING_WATER
    ELSE IF has_book /\ -45 <= Val(pitch) /\ Val(pitch) <= -25 THEN READING_BOOK
    ELSE IF has_phone \/ Val(pitch) < -60 THEN PHONE_DISTRACTION
    ELSE IF ~has_book /\ ~has_phone /\ ~has_bottle /\ ~has_cup
            /\ -50 <= Val(pitch) /\ Val(pitch) <= -30 THEN TAKING_NOTES
    ELSE IF has_laptop /\ -20 <= Val(pitch) /\ Val(pitch) <= 0 THEN TYPING
    ELSE IF gaze # None /\ Val(gaze) > 30 /\ Abs(Val(pitch)) < 20 THEN THINKING
    ELSE IF gaze # None /\ Val(gaze) > 25 THEN LOOKING_AWAY
    ELSE IF Abs(Val(pitch)) < 25 /\ (gaze = None \/ Val(gaze) < 20)
         THEN FOCUSED_STUDYING
    ELSE UNKNOWN

\* variant: the drinking rule accepts a pitch of exactly -15
classify_drinking_inclusive(pitch, yaw, gaze, ear, has_book, has_phone, has_laptop, has_bottle, has_cup) ==
    IF pitch = None THEN UNKNOWN
    ELSE IF (has_bottle \/ has_cup) /\ Val(pitch) >= -15 THEN DRINKING_WATER
    ELSE IF has_phone \/ Val(pitch) < -60 THEN PHONE_DISTRACTION
    ELSE IF has_book /\ -45 <= Val(pitch) /\ Val(pitch) <= -25 THEN READING_BOOK
    ELSE IF ~has_book /\ ~has_phone /\ ~has_bottle /\ ~has_cup
            /\ -50 <= Val(pitch) /\ Val(pitch) <= -30 THEN TAKING_NOTES
    ELSE IF has_laptop /\ -20 <= Val(pitch) /\ Val(pitch) <= 0 THEN TYPING
    ELSE IF gaze # None /\ Val(gaze) > 30 /\ Abs(Val(pitch)) < 20 THEN THINKING
    ELSE IF gaze # None /\ Val(gaze) > 25 THEN LOOKING_AWAY
    ELSE IF Abs(Val(pitch)) < 25 /\ (gaze = None \/ Val(gaze) < 20)
         THEN FOCUSED_STUDYING
    ELSE UNKNOWN

\* variant: the phone cue is tried before the missing-pitch check
classify_phone_before_none(pitch, yaw, gaze, ear, has_book, has_phone, has_laptop, has_bottle, has_cup) ==
    IF has_phone THEN PHONE_DISTRACTION
    ELSE IF pitch = None THEN UNKNOWN
    ELSE IF (has_bottle \/ has_cup) /\ Val(pitch) > -15 THEN DRINKING_WATER
    ELSE IF Val(pitch) < -60 THEN PHONE_DISTRACTION
    ELSE IF has_book /\ -45 <= Val(pitch) /\ Val(pitch) <= -25 THEN READING_BOOK
    ELSE IF ~has_book /\ ~has_bottle /\ ~has_cup
            /\ -50 <= Val(pitch) /\ Val(pitch) <= -30 THEN TAKING_NOTES
    ELSE IF has_laptop /\ -20 <= Val(pitch) /\ Val(pitch) <= 0 THEN TYPING
    ELSE IF gaze # None /\ Val(gaze) > 30 /\ Abs(Val(pitch)) < 20 THEN THINKING
    ELSE IF gaze # None /\ Val(gaze) > 25 THEN LOOKING_AWAY
    ELSE IF Abs(Val(pitch)) < 25 /\ (gaze = None \/ Val(gaze) < 20)
         THEN FOCUSED_STUDYING
    ELSE UNKNOWN

classify_activity(pitch, yaw, gaze, ear, has_book, has_phone, has_laptop, has_bottle, has_cup) ==
    IF pitch = None THEN UNKNOWN
    ELSE IF (has_bottle \/ has_cup) /\ Val(pitch) > -15 THEN DRINKING_WATER
    ELSE IF has_phone \/ Val(pitch) < PHONE_PITCH_THRESHOLD THEN PHONE_DISTRACTION
    ELSE IF has_book /\ READING_PITCH_RANGE[1] <= Val(pitch)
                     /\ Val(pitch) <= READING_PITCH_RANGE[2] THEN READING_BOOK
    ELSE IF ~has_book /\ ~has_phone /\ ~has_bottle /\ ~has_cup
            /\ NOTE_TAKING_PITCH_RANGE[1] <= Val(pitch)
            /\ Val(pitch) <= NOTE_TAKING_PITCH_RANGE[2] THEN TAKING_NOTES
    ELSE IF has_laptop /\ -20 <= Val(pitch) /\ Val(pitch) <= 0 THEN TYPING
    ELSE IF gaze # None /\ Val(gaze) > THINKING_GAZE_THRESHOLD
            /\ Abs(Val(pitch)) < 20 THEN THINKING
    ELSE IF gaze # None /\ Val(gaze) > 25 THEN LOOKING_AWAY
    ELSE IF Abs(Val(pitch)) < 25 /\ (gaze = None \/ Val(gaze) < 20)
         THEN FOCUSED_STUDYING
    ELSE UNKNOWN

(* ContextAnalyzer._evaluate_distraction: <<is_distracted, severity>> *)

\* variant: the two counts are compared with <= instead of <
evaluate_off_by_one(history, activity, pitch, gaze, ear) ==
    IF activity \in {FOCUSED_STUDYING, READING_BOOK, TAKING_NOTES, TYPING}
    THEN <<FALSE, 0>>
    ELSE IF activity = DRINKING_WATER
    THEN (IF CountIn(history, {DRINKING_WATER}) <= 15 THEN <<FALSE, 0>>
          ELSE <<TRUE, 2>>)
    ELSE IF activity = THINKING
    THEN (IF CountIn(history, {THINKING}) <= 8 THEN <<FALSE, 1>>
          ELSE <<TRUE, 3>>)
    ELSE IF activity = PHONE_DISTRACTION THEN <<TRUE, 9>>
    ELSE IF activity = FACE_MISSING THEN <<TRUE, 8>>
    ELSE IF activity = LOOKING_AWAY THEN <<TRUE, 5>>
    ELSE <<TRUE, 3>>

\* variant: the length of the history is counted, whatever its entries
evaluate_counts_all(history, activity, pitch, gaze, ear) ==
    IF activity \in {FOCUSED_STUDYING, READING_BOOK, TAKING_NOTES, TYPING}
    THEN <<FALSE, 0>>
    ELSE IF activity = DRINKING_WATER
    THEN (IF Len(history) < 15 THEN <<FALSE, 0>> ELSE <<TRUE, 2>>)
    ELSE IF activity = THINKING
    THEN (IF Len(history) < 8 THEN <<FALSE, 1>> ELSE <<TRUE, 3>>)
    ELSE IF activity = PHONE_DISTRACTION THEN <<TRUE, 9>>
    ELSE IF activity = FACE_MISSING THEN <<TRUE, 8>>
    ELSE IF activity = LOOKING_AWAY THEN <<TRUE, 5>>
    ELSE <<TRUE, 3>>

\* variant: looking away shares the hysteresis of thinking
evaluate_looking_away_tolerated(history, activity, pitch, gaze, ear) ==
    IF activity \in {FOCUSED_STUDYING, READING_BOOK, TAKING_NOTES, TYPING}
    THEN <<FALSE, 0>>
    ELSE IF activity = DRINKING_WATER
    THEN (IF CountIn(history, {DRINKING_WATER}) < 15 THEN <<FALSE, 0>>
          ELSE <<TRUE, 2>>)
    ELSE IF activity \in {THINKING, LOOKING_AWAY}
    THEN (IF CountIn(history, {THINKING}) < 8 THEN <<FALSE, 1>>
          ELSE <<TRUE, 3>>)
    ELSE IF activity = PHONE_DISTRACTION THEN <<TRUE, 9>>
    ELSE IF activity = FACE_MISSING THEN <<TRUE, 8>>
    ELSE <<TRUE, 3>>

evaluate_distraction(history, activity, pitch, gaze, ear) ==
    IF activity \in {FOCUSED_STUDYING, READING_BOOK, TAKING_NOTES, TYPING}
    THEN <<FALSE, 0>>
    ELSE IF activity = DRINKING_WATER
    THEN (IF CountIn(history, {DRINKING_WATER}) < 15 THEN <<FALSE, 0>>
          ELSE <<TRUE, 2>>)
    ELSE IF activity = THINKING
    THEN (IF CountIn(history, {THINKING}) < 8 THEN <<FALSE, 1>>
          ELSE <<TRUE, 3>>)
    ELSE IF activity = PHONE_DISTRACTION THEN <<TRUE, 9>>
    ELSE IF activity = FACE_MISSING THEN <<TRUE, 8>>
    ELSE IF activity = LOOKING_AWAY THEN <<TRUE, 5>>
    ELSE <<TRUE, 3>>

-----------------------------------------------------------------------------
(* AdaptiveAttentionScorer: values and pure computations *)

\* sum of seq[1..i]
RECURSIVE SumTo(_, _)
SumTo(seq, i) == IF i = 0 THEN 0 ELSE seq[i] + SumTo(seq, i - 1)
SumSeq(seq) == SumTo(seq, Len(seq))
Squares(seq) == [i \in 1..Len(seq) |-> seq[i] * seq[i]]

\* largest r in lo..hi with r * r <= x
RECURSIVE ISqrtIn(_, _, _)
ISqrtIn(x, lo, hi) ==
    IF lo >= hi THEN lo
    ELSE LET mid == (lo + hi + 1) \div 2
         IN  IF mid * mid <= x THEN ISqrtIn(x, mid, hi) ELSE ISqrtIn(x, lo, mid - 1)
ISqrt(x) == ISqrtIn(x, 0, 46340)

\* n * n * np.var(seq): n * sum(x^2) - sum(x)^2
VarTimesN2(seq) ==
    Len(seq) * SumSeq(Squares(seq)) - SumSeq(seq) * SumSeq(seq)

\* 4 * np.percentile(seq, q) for q = 25 * quarters (linear interpolation
\* between the two closest ranks of the sorted values)
Percentile4(seq, quarters) ==
    LET sorted == SortSeq(seq, LAMBDA a, b : a < b)
        h4 == (Len(seq) - 1) * quarters
        lo == h4 \div 4
        fr == h4 % 4
    IN  IF fr = 0 THEN 4 * sorted[lo + 1]
        ELSE 4 * sorted[lo + 1] + fr * (sorted[lo + 2] - sorted[lo + 1])

\* abs(np.mean(seq)) and np.std(seq) in hundredths, for values in whole units
AbsMean100(seq) == (100 * Abs(SumSeq(seq))) \div Len(seq)
Std100(seq) == ISqrt(10000 * VarTimesN2(seq)) \div Len(seq)

\* variant: the mean is used with its sign
SignedMean100(seq) ==
    IF SumSeq(seq) >= 0 THEN (100 * SumSeq(seq)) \div Len(seq)
    ELSE -((100 * (-SumSeq(seq))) \div Len(seq))

(* __init__, lines 37-41: default thresholds *)
DefaultThresholds ==
    [ear_thresh |-> 6000, gaze_thresh |-> 800, roll_thresh |-> 6000,
     pitch_thresh |-> 2000, yaw_thresh |-> 3000]

(* __init__, lines 45-51 *)
EmptyCalibrationData ==
    [ear_baseline |-> <<>>, gaze_baseline |-> <<>>, pitch_baseline |-> <<>>,
     yaw_baseline |-> <<>>, roll_baseline |-> <<>>]

(* __init__, lines 54-56 *)
EmptyAnomalyHistory == [ear |-> <<>>, gaze |-> <<>>, pitch |-> <<>>]

\* user_id or "default": None and "" are both written ""
EffectiveUserId(uid) == IF uid = "" THEN "default" ELSE uid
\* calibration_file or f"calibration_{self.user_id}.json"
EffectiveFile(uid, file) ==
    IF file = "" THEN "calibration_" \o EffectiveUserId(uid) \o ".json" ELSE file

(* finalize_calibration, lines 97-131: the thresholds after a successful call *)

\* variant: the angle thresholds use the signed mean
finalize_thresholds_signed(th, cd) ==
    [ear_thresh |-> IF cd.ear_baseline # <<>>
                    THEN 9 * Percentile4(cd.ear_baseline, 1) ELSE th.ear_thresh,
     gaze_thresh |-> IF cd.gaze_baseline # <<>>
                     THEN 12 * Percentile4(cd.gaze_baseline, 3) ELSE th.gaze_thresh,
     pitch_thresh |-> IF cd.pitch_baseline # <<>>
                      THEN SignedMean100(cd.pitch_baseline)
                           + (15 * Std100(cd.pitch_baseline)) \div 10
                      ELSE th.pitch_thresh,
     yaw_thresh |-> IF cd.yaw_baseline # <<>>
                    THEN SignedMean100(cd.yaw_baseline)
                         + (15 * Std100(cd.yaw_baseline)) \div 10
                    ELSE th.yaw_thresh,
     roll_thresh |-> IF cd.roll_baseline # <<>>
                     THEN SignedMean100(cd.roll_baseline) + 2 * Std100(cd.roll_baseline)
                     ELSE th.roll_thresh]

\* variant: the ear threshold is taken from the median
finalize_thresholds_median(th, cd) ==
    [ear_thresh |-> IF cd.ear_baseline # <<>>
                    THEN 9 * Percentile4(cd.ear_baseline, 2) ELSE th.ear_thresh,
     gaze_thresh |-> IF cd.gaze_baseline # <<>>
                     THEN 12 * Percentile4(cd.gaze_baseline, 3) ELSE th.gaze_thresh,
     pitch_thresh |-> IF cd.pitch_baseline # <<>>
                      THEN AbsMean100(cd.pitch_baseline)
                           + (15 * Std100(cd.pitch_baseline)) \div 10
                      ELSE th.pitch_thresh,
     yaw_thresh |-> IF cd.yaw_baseline # <<>>
                    THEN AbsMean100(cd.yaw_baseline)
                         + (15 * Std100(cd.yaw_baseline)) \div 10
                    ELSE th.yaw_thresh,
     roll_thresh |-> IF cd.roll_baseline # <<>>
                     THEN AbsMean100(cd.roll_baseline) + 2 * Std100(cd.roll_baseline)
                     ELSE th.roll_thresh]

\* variant: a metric without samples falls back to its default
finalize_thresholds_reset(th, cd) ==
    [ear_thresh |-> IF cd.ear_baseline # <<>>
                    THEN 9 * Percentile4(cd.ear_baseline, 1)
                    ELSE DefaultThresholds.ear_thresh,
     gaze_thresh |-> IF cd.gaze_baseline # <<>>
                     THEN 12 * Percentile4(cd.gaze_baseline, 3)
                     ELSE DefaultThresholds.gaze_thresh,
     pitch_thresh |-> IF cd.pitch_baseline # <<>>
                      THEN AbsMean100(cd.pitch_baseline)
                           + (15 * Std100(cd.pitch_baseline)) \div 10
                      ELSE DefaultThresholds.pitch_thresh,
     yaw_thresh |-> IF cd.yaw_baseline # <<>>
                    THEN AbsMean100(cd.yaw_baseline)
                         + (15 * Std100(cd.yaw_baseline)) \div 10
                    ELSE DefaultThresholds.yaw_thresh,
     roll_thresh |-> IF cd.roll_baseline # <<>>
                     THEN AbsMean100(cd.roll_baseline) + 2 * Std100(cd.roll_baseline)
                     ELSE DefaultThresholds.roll_thresh]

finalize_thresholds(th, cd) ==
    [ear_thresh |-> IF cd.ear_baseline # <<>>
                    THEN 9 * Percentile4(cd.ear_baseline, 1) ELSE th.ear_thresh,
     gaze_thresh |-> IF cd.gaze_baseline # <<>>
                     THEN 12 * Percentile4(cd.gaze_baseline, 3) ELSE th.gaze_thresh,
     pitch_thresh |-> IF cd.pitch_baseline # <<>>
                      THEN AbsMean100(cd.pitch_baseline)
                           + (15 * Std100(cd.pitch_baseline)) \div 10
                      ELSE th.pitch_thresh,
     yaw_thresh |-> IF cd.yaw_baseline # <<>>
                    THEN AbsMean100(cd.yaw_baseline)
                         + (15 * Std100(cd.yaw_baseline)) \div 10
                    ELSE th.yaw_thresh,
     roll_thresh |-> IF cd.roll_baseline # <<>>
                     THEN AbsMean100(cd.roll_baseline) + 2 * Std100(cd.roll_baseline)
                     ELSE th.roll_thresh]

(* Calibration files.  A file is missing, truncated (what a write that      *)
(* failed after open(..., 'w') leaves behind) or holds a JSON object; a JSON *)
(* number is written by repr and read back as the same value.                *)

MissingFile == [kind |-> "missing"]
TruncatedFile == [kind |-> "truncated"]
JsonFile(data) == [kind |-> "json", data |-> data]

\* dict.get(key, default)
DictGet(obj, key, default) == IF key \in DOMAIN obj THEN obj[key] ELSE default

(* get_thresholds, lines 190-198 *)
get_thresholds_result(th) ==
    [ear_thresh |-> th.ear_thresh, gaze_thresh |-> th.gaze_thresh,
     roll_thresh |-> th.roll_thresh, pitch_thresh |-> th.pitch_thresh,
     yaw_thresh |-> th.yaw_thresh]

(* _save_calibration, lines 203-212: the object handed to json.dump *)

\* variant: the thresholds are written under the key of the in-memory attribute
save_data_flat(uid, calibrated, th, cd) ==
    [user_id |-> uid, is_calibrated |-> calibrated,
     threshold |-> get_thresholds_result(th),
     calibration_stats |-> [ear_samples |-> Len(cd.ear_baseline),
                            gaze_samples |-> Len(cd.gaze_baseline),
                            pitch_samples |-> Len(cd.pitch_baseline)]]

save_data(uid, calibrated, th, cd) ==
    [user_id |-> uid, is_calibrated |-> calibrated,
     thresholds |-> get_thresholds_result(th),
     calibration_stats |-> [ear_samples |-> Len(cd.ear_baseline),
                            gaze_samples |-> Len(cd.gaze_baseline),
                            pitch_samples |-> Len(cd.pitch_baseline)]]

\* the file after _save_calibration, lines 214-219.  outcome: "ok", or
\* "open_fails" (open raises, nothing is touched), or "write_fails"
\* (json.dump raises after open has truncated the file)
saved_file(old, data, outcome) ==
    CASE outcome = "ok" -> JsonFile(data)
      [] outcome = "open_fails" -> old
      [] outcome = "write_fails" -> TruncatedFile

(* _load_calibration, lines 221-242: <<thresholds, is_calibrated, loaded>> *)

\* variant: the record is applied whatever user_id it carries
load_calibration_any_user(content, readable, uid, th) ==
    IF content.kind = "json" /\ readable
    THEN LET thresholds == DictGet(content.data, "thresholds", <<>>)
         IN  <<[ear_thresh |-> DictGet(thresholds, "ear_thresh", th.ear_thresh),
                gaze_thresh |-> DictGet(thresholds, "gaze_thresh", th.gaze_thresh),
                roll_thresh |-> DictGet(thresholds, "roll_thresh", th.roll_thresh),
                pitch_thresh |-> DictGet(thresholds, "pitch_thresh", th.pitch_thresh),
                yaw_thresh |-> DictGet(thresholds, "yaw_thresh", th.yaw_thresh)],
               DictGet(content.data, "is_calibrated", FALSE), TRUE>>
    ELSE <<th, FALSE, FALSE>>

load_calibration(content, readable, uid, th) ==
    IF content.kind = "missing" THEN <<th, FALSE, FALSE>>
    ELSE IF ~readable THEN <<th, FALSE, FALSE>>
    ELSE IF content.kind = "truncated" THEN <<th, FALSE, FALSE>>
    ELSE IF DictGet(content.data, "user_id", "") = uid
    THEN LET thresholds == DictGet(content.data, "thresholds", <<>>)
         IN  <<[ear_thresh |-> DictGet(thresholds, "ear_thresh", th.ear_thresh),
                gaze_thresh |-> DictGet(thresholds, "gaze_thresh", th.gaze_thresh),
                roll_thresh |-> DictGet(thresholds, "roll_thresh", th.roll_thresh),
                pitch_thresh |-> DictGet(thresholds, "pitch_thresh", th.pitch_thresh),
                yaw_thresh |-> DictGet(thresholds, "yaw_thresh", th.yaw_thresh)],
               DictGet(content.data, "is_calibrated", FALSE), TRUE>>
    ELSE <<th, FALSE, FALSE>>

-----------------------------------------------------------------------------
(* PatternRecognizer: pure computations on the windows.  Gaze values are   *)
(* hundredths, pitch values degrees, ear values thousandths; the score is  *)
(* in tenths.                                                               *)

DEFAULT_WINDOW_SIZE == 60
EAR_BLINK_THRESHOLD == 150

\* variant: a full deque refuses the new value
window_append_keep_oldest(w, x, size) ==
    IF x = None THEN w
    ELSE IF Len(w) < size THEN Append(w, Val(x)) ELSE w

\* add_sample, lines 40-45: deque(maxlen=size).append of a value that is present
window_append(w, x, size) ==
    IF x = None THEN w ELSE LastN(Append(w, Val(x)), size)

\* np.sign
Sign(x) == IF x > 0 THEN 1 ELSE IF x < 0 THEN -1 ELSE 0

\* np.sum(np.diff(np.sign(np.diff(seq))) != 0), line 65-66
zero_crossings(seq) ==
    Cardinality({i \in 1..(Len(seq) - 2) :
                    Sign(seq[i + 1] - seq[i]) # Sign(seq[i + 2] - seq[i + 1])})

\* np.std(seq) < bound
StdBelow(seq, bound) == VarTimesN2(seq) < bound * bound * Len(seq) * Len(seq)

\* variant: the reading test runs on any number of gaze samples
detect_reading_no_minimum(gw, pw) ==
    LET is_reading == zero_crossings(gw) >= 3 /\ zero_crossings(gw) <= 8
    IN  IF Len(pw) >= 20 THEN is_reading /\ StdBelow(LastN(pw, 20), 5)
        ELSE is_reading

\* detect_reading_pattern, lines 56-76
detect_reading_pattern(gw, pw) ==
    IF Len(gw) < 20 THEN FALSE
    ELSE LET is_reading == zero_crossings(gw) >= 3 /\ zero_crossings(gw) <= 8
         IN  IF Len(pw) >= 20 THEN is_reading /\ StdBelow(LastN(pw, 20), 5)
             ELSE is_reading

\* detect_thinking_pattern, lines 89-103: mean of the first 15 of the last 30
\* above 0.25 and mean of the other 15 below 0.2
detect_thinking_pattern(gw) ==
    IF Len(gw) < 30 THEN FALSE
    ELSE LET recent_gaze == LastN(gw, 30)
         IN  /\ SumSeq(SubSeq(recent_gaze, 1, 15)) > 25 * 15
             /\ SumSeq(SubSeq(recent_gaze, 16, 30)) < 20 * 15

\* detect_phone_pattern, lines 116-129
detect_phone_pattern(pw) ==
    IF Len(pw) < 30 THEN FALSE
    ELSE LET recent_pitch == LastN(pw, 30)
         IN  SumSeq(recent_pitch) < -60 * 30 /\ StdBelow(recent_pitch, 3)

\* the loop of lines 155-160 from position i on: blinks counted so far and
\* the in_blink flag in, the final count out
RECURSIVE blink_scan(_, _, _, _)
blink_scan(ew, i, blinks, in_blink) ==
    IF i > Len(ew) THEN blinks
    ELSE IF ew[i] < EAR_BLINK_THRESHOLD /\ ~in_blink
         THEN blink_scan(ew, i + 1, blinks + 1, TRUE)
    ELSE IF ew[i] > EAR_BLINK_THRESHOLD
         THEN blink_scan(ew, i + 1, blinks, FALSE)
    ELSE blink_scan(ew, i + 1, blinks, in_blink)

\* variant: the static-image test is left out
detect_blink_no_static_test(ew, size) ==
    IF Len(ew) < 60 THEN <<TRUE, 0>>
    ELSE LET blinks == blink_scan(ew, 1, 0, FALSE)
         IN  <<blinks >= 0 /\ blinks <= 3, blinks>>

\* variant: every sample below the threshold counts as a blink
detect_blink_every_low_sample(ew, size) ==
    IF Len(ew) < 60 THEN <<TRUE, 0>>
    ELSE LET blinks == Cardinality({i \in 1..Len(ew) : ew[i] < EAR_BLINK_THRESHOLD})
         IN  <<(blinks >= 0 /\ blinks <= 3) /\ ~(Len(ew) = size /\ blinks = 0), blinks>>

\* detect_blink_pattern, lines 144-170: <<is_natural, blink_count>>
detect_blink_pattern(ew, size) ==
    IF Len(ew) < 60 THEN <<TRUE, 0>>
    ELSE LET blinks == blink_scan(ew, 1, 0, FALSE)
         IN  <<(blinks >= 0 /\ blinks <= 3) /\ ~(Len(ew) = size /\ blinks = 0), blinks>>

\* detect_micro_movements, lines 184-197: variance of the whole window > 0.5
detect_micro_movements(pw) ==
    IF Len(pw) < 30 THEN TRUE
    ELSE 2 * VarTimesN2(pw) > Len(pw) * Len(pw)

\* variant: the score is returned as accumulated
engagement_score_unclamped(gw, pw, ew, size) ==
    5 + (IF detect_reading_pattern(gw, pw) THEN 3 ELSE 0)
      + (IF detect_thinking_pattern(gw) THEN 1 ELSE 0)
      - (IF detect_phone_pattern(pw) THEN 5 ELSE 0)
      - (IF ~detect_blink_pattern(ew, size)[1] THEN 3 ELSE 0)
      - (IF ~detect_micro_movements(pw) THEN 3 ELSE 0)

Clamp(x, lo, hi) == IF x < lo THEN lo ELSE IF x > hi THEN hi ELSE x

\* get_engagement_score, lines 210-233
get_engagement_score(gw, pw, ew, size) ==
    Clamp(5 + (IF detect_reading_pattern(gw, pw) THEN 3 ELSE 0)
            + (IF detect_thinking_pattern(gw) THEN 1 ELSE 0)
            - (IF detect_phone_pattern(pw) THEN 5 ELSE 0)
            - (IF ~detect_blink_pattern(ew, size)[1] THEN 3 ELSE 0)
            - (IF ~detect_micro_movements(pw) THEN 3 ELSE 0),
          0, 10)

\* get_pattern_summary, lines 237-247
get_pattern_summary(gw, pw, ew, size) ==
    [reading |-> detect_reading_pattern(gw, pw),
     thinking |-> detect_thinking_pattern(gw),
     phone |-> detect_phone_pattern(pw),
     natural_blinks |-> detect_blink_pattern(ew, size)[1],
     blink_count |-> detect_blink_pattern(ew, size)[2],
     micro_movements |-> detect_micro_movements(pw),
     engagement_score |-> get_engagement_score(gw, pw, ew, size)]

-----------------------------------------------------------------------------
(* Initial state: ContextAnalyzer.__init__ *)

NoCall == [face_detected |-> FALSE, pitch |-> None, yaw |-> None, gaze |-> None,
           ear |-> None, objects |-> {"<no call>"}]
NoRet == [activity |-> "<no call>", is_distracted |-> FALSE, severity |-> 0]
NoSusCall == [threshold_halves |-> 0, fps |-> 0]

\* <<user_id, calibration_file>> arguments: all defaults, or one of two users
\* over the same file
ConstructArgs == {<<"", "">>, <<"", "shared.json">>, <<"alice", "shared.json">>}
FileNames == {EffectiveFile(a[1], a[2]) : a \in ConstructArgs}
NoGet == [none |-> TRUE]

Snapshot(uid, file, th, calibrated, cd, fs, got, fin) ==
    [user_id |-> uid, calibration_file |-> file, thresh |-> th,
     is_calibrated |-> calibrated, calibration_data |-> cd, files |-> fs,
     last_get |-> got, finalized |-> fin]

\* AdaptiveAttentionScorer() constructed where no calibration file exists
ScorerInit ==
    /\ user_id = EffectiveUserId("")
    /\ calibration_file = EffectiveFile("", "")
    /\ thresh = DefaultThresholds
    /\ is_calibrated = FALSE
    /\ calibration_data = EmptyCalibrationData
    /\ anomaly_history = EmptyAnomalyHistory
    /\ files = [f \in FileNames |-> MissingFile]
    /\ op = [name |-> "construct", readable |-> TRUE, loaded |-> FALSE]
    /\ pre = Snapshot(EffectiveUserId(""), EffectiveFile("", ""), DefaultThresholds,
                      FALSE, EmptyCalibrationData,
                      [f \in FileNames |-> MissingFile], NoGet, NoGet)
    /\ last_get = NoGet
    /\ finalized = NoGet
    /\ anomaly_log = <<>>
    /\ adds = 0
    /\ finalizes = 0
    /\ constructs = 0

\* PatternRecognizer() with the default window_size; its frames are read from
\* the reading signal unless a recognizer is constructed over another one
Windows(gw, pw, ew) == [gaze |-> gw, pitch |-> pw, ear |-> ew]

RecognizerInit ==
    /\ window_size = DEFAULT_WINDOW_SIZE
    /\ gaze_window = <<>>
    /\ pitch_window = <<>>
    /\ ear_window = <<>>
    /\ pr_log = <<>>
    /\ pr_op = [name |-> "__init__"]
    /\ pr_pre = Windows(<<>>, <<>>, <<>>)
    /\ script = "reading"

-----------------------------------------------------------------------------
(* SessionServerStore: the documents and the computations of its methods.  *)
(* A session id is the index of its document in sessions (start_session is *)
(* called without session_id, so every id is a fresh auto id).  The field  *)
(* currentIntervalStart is None when the document has no such field.       *)

\* the document written by start_session, lines 145-160
session_document(uid, username, started_at, t) ==
    [userId |-> uid, username |-> username, startedAt |-> started_at,
     stoppedAt |-> None, elapsedMs |-> None, distractedTotalMs |-> 0,
     intervalCount |-> 0, focusScore |-> None, status |-> "active",
     lastUpdated |-> t, currentIntervalStart |-> None]

\* variant: an already open interval is restarted
opens_interval_always(data) == data.status # "completed"

\* mark_distracted, lines 219-229: the guards that lead to the update
opens_interval(data) ==
    data.status # "completed" /\ data.currentIntervalStart = None

\* the update of mark_distracted, lines 223-228
open_interval(doc, start_at, t) ==
    [doc EXCEPT !.currentIntervalStart = Some(start_at), !.lastUpdated = t]

\* mark_focused, lines 245-250: the guards that lead to the two writes
closes_interval(data) ==
    data.status # "completed" /\ data.currentIntervalStart # None

\* line 253
duration_ms(data, end_at) == end_at - Val(data.currentIntervalStart)

\* the interval document of lines 257-267, of session sid
interval_document(sid, data, end_at, t) ==
    [session |-> sid, startAt |-> Val(data.currentIntervalStart),
     endAt |-> end_at, durationMs |-> duration_ms(data, end_at),
     idx |-> data.intervalCount + 1, source |-> "state-detector",
     createdAt |-> t]

\* variant: the interval count is left as it was
close_interval_no_count(doc, duration, t) ==
    [doc EXCEPT !.distractedTotalMs = @ + duration,
                !.currentIntervalStart = None, !.lastUpdated = t]

\* the update of lines 270-277: the increments apply to the stored document
close_interval(doc, duration, t) ==
    [doc EXCEPT !.distractedTotalMs = @ + duration, !.intervalCount = @ + 1,
                !.currentIntervalStart = None, !.lastUpdated = t]

\* line 192: ((1 - distracted / elapsed) * 100.0) if elapsed > 0 else 0.0
focus_score(distracted_total_ms, elapsed_ms) ==
    IF elapsed_ms > 0
    THEN [num |-> 100 * (elapsed_ms - distracted_total_ms), den |-> elapsed_ms]
    ELSE [num |-> 0, den |-> 1]

\* line 190
elapsed_ms_of(data, stopped_at) == stopped_at - data.startedAt

\* the update of stop_session, lines 194-202, computed from the snapshot data
finalize_session(doc, data, stopped_at, t) ==
    [doc EXCEPT !.stoppedAt = Some(stopped_at),
                !.elapsedMs = Some(elapsed_ms_of(data, stopped_at)),
                !.focusScore = Some(focus_score(data.distractedTotalMs,
                                                elapsed_ms_of(data, stopped_at))),
                !.status = "completed", !.lastUpdated = t]

\* the two collections as one value
Database(ss, iv) == [sessions |-> ss, intervals |-> iv]

\* mark_distracted run without interruption
mark_distracted_db(db, sid, start_at, t) ==
    IF opens_interval(db.sessions[sid])
    THEN [db EXCEPT !.sessions[sid] = open_interval(@, start_at, t)]
    ELSE db

\* mark_focused run without interruption
mark_focused_db(db, sid, end_at, t) ==
    LET data == db.sessions[sid]
    IN  IF closes_interval(data)
        THEN Database([db.sessions EXCEPT ![sid] =
                           close_interval(@, duration_ms(data, end_at), t)],
                      Append(db.intervals, interval_document(sid, data, end_at, t)))
        ELSE db

\* the value mark_focused returns
mark_focused_ret(db, sid, end_at) ==
    IF closes_interval(db.sessions[sid])
    THEN Some(duration_ms(db.sessions[sid], end_at))
    ELSE None

\* variant: stop_session finalizes without closing the open interval
stop_session_db_leaving_open(db, sid, stopped_at, t) ==
    [db EXCEPT !.sessions[sid] = finalize_session(@, db.sessions[sid], stopped_at, t)]

\* stop_session run without interruption: mark_focused (line 177), then the
\* read of line 179 and the update of lines 194-202
stop_session_db(db, sid, stopped_at, t) ==
    LET closed == mark_focused_db(db, sid, stopped_at, t)
    IN  [closed EXCEPT !.sessions[sid] =
             finalize_session(@, closed.sessions[sid], stopped_at, t)]

\* the pair stop_session returns
stop_session_ret(db, sid, stopped_at, t) ==
    LET data == mark_focused_db(db, sid, stopped_at, t).sessions[sid]
    IN  <<elapsed_ms_of(data, stopped_at),
          focus_score(data.distractedTotalMs, elapsed_ms_of(data, stopped_at))>>

\* the threads that serve requests or call the store
Threads == {1, 2}

Idle == [pc |-> "idle"]

NoProcess == "None"

ServerSnapshot(ss, iv, store, sid, p) ==
    [sessions |-> ss, intervals |-> iv, session_store |-> store,
     session_id |-> sid, proc |-> p]

\* the server after import (server.py lines 24-30) and an empty collection
ServerInit ==
    /\ sessions = <<>>
    /\ intervals = <<>>
    /\ now = 0
    /\ frames = [th \in Threads |-> Idle]
    /\ session_store = None
    /\ session_id = None
    /\ session_username = None
    /\ proc = NoProcess
    /\ light_on_state = FALSE
    /\ sv_op = [name |-> "<no call>"]
    /\ sv_pre = ServerSnapshot(<<>>, <<>>, None, None, NoProcess)
    /\ docs_at_stop = 0
    /\ sv_calls = 0
    /\ sv_stamps = <<>>

-----------------------------------------------------------------------------
(* ObjectDetector: values and pure computations                             *)
(* A confidence is an integer number of hundredths; a frame is the sequence *)
(* of boxes the YOLO model returns for it, each with a class id and a       *)
(* confidence.                                                              *)

\* COCO class ids, lines 22-30
STUDY_OBJECTS ==
    ("book" :> 73) @@ ("cell phone" :> 67) @@ ("laptop" :> 63) @@ ("keyboard" :> 66)
    @@ ("mouse" :> 64) @@ ("cup" :> 41) @@ ("bottle" :> 39)

ObjectNames == DOMAIN STUDY_OBJECTS

\* __init__, lines 61-69
object_thresholds ==
    ("cell phone" :> 30) @@ ("bottle" :> 35) @@ ("cup" :> 35) @@ ("book" :> 40)
    @@ ("laptop" :> 45) @@ ("keyboard" :> 45) @@ ("mouse" :> 40)

\* __init__, line 82
history_length == 8

Box(class_id, confidence) == [class_id |-> class_id, confidence |-> confidence]

NothingDetected == [obj \in ObjectNames |-> FALSE]

\* lines 106-118: a label is detected when a box of its class reaches the
\* label's threshold
detected_objects(boxes) ==
    [obj \in ObjectNames |->
        \E i \in 1..Len(boxes) :
            /\ boxes[i].class_id = STUDY_OBJECTS[obj]
            /\ boxes[i].confidence >= object_thresholds[obj]]

\* variant: the history keeps every entry
history_append_unbounded(h, detected) == Append(h, detected)

\* lines 121-124
history_append(h, detected) ==
    IF Len(Append(h, detected)) > history_length THEN Tail(Append(h, detected))
    ELSE Append(h, detected)

\* sum(history)
detection_count(h) == Cardinality({i \in 1..Len(h) : h[i]})

\* variant: two detections are enough for every label
min_detections_two(obj) == 2

\* line 133
min_detections(obj) == IF obj = "cell phone" THEN 2 ELSE 3

\* lines 128-136, on the histories as updated
filtered_objects(history, detected) ==
    [obj \in ObjectNames |->
        IF Len(history[obj]) >= 2
        THEN detection_count(history[obj]) >= min_detections(obj)
        ELSE detected[obj]]

\* a detector whose model was loaded (lines 71-78), before its first frame
DetectorInit ==
    /\ od_enabled = TRUE
    /\ detection_history = [obj \in ObjectNames |-> <<>>]
    /\ od_op = [name |-> "<no call>"]
    /\ od_calls = 0

-----------------------------------------------------------------------------
(* The driver loops of main.py and enhanced_main.py: values and one loop    *)
(* iteration as a function of the locals it finds and of what the frame     *)
(* brings. Times are integer numbers of half seconds; t_now is counted from  *)
(* start_time. A post is recorded when requests.post is called, whether or  *)
(* not it raises.                                                           *)

\* 2.5 s: main.py lines 167-168 (default of face_missing_time_thresh),
\* enhanced_main.py lines 198-199
FACE_MISSING_TIME_THRESH == 5

\* 5.0 s: enhanced_main.py line 336
DISTRACTION_FLAG_TIME == 10

\* 1.0 s: main.py lines 192 and 208, enhanced_main.py lines 387 and 398
WARMUP_TIME == 2

Light(value, path) == [url |-> "/light", body |-> value, path |-> path]
Edge(value, path) == [url |-> "/session/edge", body |-> value, path |-> path]

DriverLocals(ld, lfd, fnd, fd, dst, t) ==
    [last_distracted |-> ld, last_face_detected |-> lfd,
     face_not_detected_time |-> fnd, face_detected_time |-> fd,
     distraction_start_time |-> dst, t_now |-> t]

\* main.py lines 102-106 and 115, enhanced_main.py lines 137-144 and 152
InitialLocals == DriverLocals(FALSE, TRUE, 0, 0, None, 0)

\* main.py lines 119-123, 153-213 and 381-414: the sustained-face-missing
\* trigger, then, on a frame with a face, the distraction trigger. late is
\* the time between the reading of t_now and the warm-up tests of lines 192
\* and 208.
main_iteration(l, face, distracted, elapsed, late) ==
    LET t == l.t_now + elapsed
        fnd == IF ~face THEN l.face_not_detected_time + elapsed ELSE 0
        fd == IF face THEN l.face_detected_time + elapsed ELSE 0
        face_missing_state == fnd >= FACE_MISSING_TIME_THRESH
        face_present_state == fd >= FACE_MISSING_TIME_THRESH
        warmed == t + late >= WARMUP_TIME
        gone == face_missing_state /\ l.last_face_detected
        lfd == IF gone THEN FALSE ELSE l.last_face_detected
        back == face_present_state /\ ~lfd
        rise == face /\ distracted /\ ~l.last_distracted
        fall == face /\ ~distracted /\ l.last_distracted
        face_posts ==
            (IF gone
             THEN <<Light(TRUE, "face")>>
                  \o (IF warmed THEN <<Edge(TRUE, "face")>> ELSE <<>>)
             ELSE <<>>)
            \o (IF back
                THEN <<Light(FALSE, "face")>>
                     \o (IF warmed THEN <<Edge(FALSE, "face")>> ELSE <<>>)
                ELSE <<>>)
        path_posts ==
            IF rise THEN <<Light(TRUE, "distraction"), Edge(TRUE, "distraction")>>
            ELSE IF fall
            THEN <<Light(FALSE, "distraction"), Edge(FALSE, "distraction")>>
            ELSE <<>>
    IN  [locals |-> DriverLocals(IF face THEN distracted ELSE l.last_distracted,
                                 IF back THEN TRUE ELSE lfd, fnd, fd,
                                 l.distraction_start_time, t),
         posts |-> face_posts \o path_posts]

\* ContextAnalyzer.MICRO_BREAK_THRESHOLD, context_analyzer.py line 39: 5.0 s
MICRO_BREAK_THRESHOLD == 10

\* ContextAnalyzer.should_ignore_brief_distraction, context_analyzer.py
\* lines 288-290
should_ignore_brief_distraction(duration) == duration < MICRO_BREAK_THRESHOLD

\* variant: the flag is raised as soon as a frame is distracted
flag_due_at_once(duration) == TRUE

\* enhanced_main.py line 336
flag_due(duration) == duration > DISTRACTION_FLAG_TIME

\* enhanced_main.py lines 158-160, 183-198, 327-403: on a frame with a face
\* the distraction trigger, then the sustained-face-missing trigger. Each
\* trigger posts /light and /session/edge in one try block: when the first
\* post raises (path_light_post, face_light_post = "raises") the second is
\* not made.
enhanced_iteration(l, face, activity, is_distracted, elapsed, late, path_light_post, face_light_post) ==
    LET t == l.t_now + elapsed
        fnd == IF ~face THEN l.face_not_detected_time + elapsed ELSE 0
        fd == IF face THEN l.face_detected_time + elapsed ELSE 0
        face_missing_state == fnd >= FACE_MISSING_TIME_THRESH
        face_present_state == fd >= FACE_MISSING_TIME_THRESH
        warmed == t + late >= WARMUP_TIME
        flagged == is_distracted /\ activity # THINKING
        dst == IF ~face THEN l.distraction_start_time
               ELSE IF ~flagged THEN None
               ELSE IF l.distraction_start_time = None THEN Some(t)
               ELSE l.distraction_start_time
        rise == face /\ flagged /\ flag_due(t - Val(dst)) /\ ~l.last_distracted
        fall == face /\ ~flagged /\ l.last_distracted
        gone == face_missing_state /\ l.last_face_detected
        lfd == IF gone THEN FALSE ELSE l.last_face_detected
        back == face_present_state /\ ~lfd
        path_posts ==
            IF rise \/ fall
            THEN <<Light(rise, "distraction")>>
                 \o (IF path_light_post = "ok" THEN <<Edge(rise, "distraction")>>
                     ELSE <<>>)
            ELSE <<>>
        face_posts ==
            IF gone \/ back
            THEN <<Light(gone, "face")>>
                 \o (IF face_light_post = "ok" /\ warmed THEN <<Edge(gone, "face")>>
                     ELSE <<>>)
            ELSE <<>>
    IN  [locals |-> DriverLocals(IF rise THEN TRUE ELSE IF fall THEN FALSE
                                 ELSE l.last_distracted,
                                 IF back THEN TRUE ELSE lfd, fnd, fd, dst, t),
         posts |-> path_posts \o face_posts]

\* the body of the latest post of posts to url by a path of paths, or prev
LatestPost(posts, url, paths, prev) ==
    LET found == {i \in 1..Len(posts) : posts[i].url = url /\ posts[i].path \in paths}
    IN  IF found = {} THEN prev
        ELSE Some(posts[CHOOSE i \in found : \A j \in found : j <= i].body)

DriverSnapshot(l, ll, pl, pe) ==
    [locals |-> l, last_light |-> ll, path_light |-> pl, path_edge |-> pe]

\* no driver has been started
DriverInit ==
    /\ driver = "none"
    /\ last_distracted = InitialLocals.last_distracted
    /\ last_face_detected = InitialLocals.last_face_detected
    /\ face_not_detected_time = InitialLocals.face_not_detected_time
    /\ face_detected_time = InitialLocals.face_detected_time
    /\ distraction_start_time = InitialLocals.distraction_start_time
    /\ t_now = InitialLocals.t_now
    /\ dr_op = [name |-> "<no call>"]
    /\ dr_pre = DriverSnapshot(InitialLocals, None, None, None)
    /\ dr_count = 0
    /\ last_light = None
    /\ path_light = None
    /\ path_edge = None

Init ==
    /\ activity_history = <<>>
    /\ current_activity = UNKNOWN
    /\ arg = NoCall
    /\ ret = NoRet
    /\ pre_history = <<>>
    /\ returned = <<>>
    /\ sus_arg = NoSusCall
    /\ sus_ret = "<no call>"
    /\ ScorerInit
    /\ RecognizerInit
    /\ ServerInit
    /\ DetectorInit
    /\ DriverInit

-----------------------------------------------------------------------------
(* ContextAnalyzer.analyze_context *)

\* variant: no early return for a missing face
analyze_result_no_face_check(history, s) ==
    LET activity == classify_activity(s.pitch, s.yaw, s.gaze, s.ear,
                        "book" \in s.objects, "cell phone" \in s.objects,
                        "laptop" \in s.objects, "bottle" \in s.objects,
                        "cup" \in s.objects)
        verdict == evaluate_distraction(history, activity, s.pitch, s.gaze, s.ear)
    IN  [activity |-> activity, is_distracted |-> verdict[1],
         severity |-> verdict[2]]

\* the triple analyze_context returns, given the history it finds
analyze_result(history, s) ==
    IF ~s.face_detected
    THEN [activity |-> FACE_MISSING, is_distracted |-> TRUE, severity |-> 8]
    ELSE LET has_book == "book" \in s.objects
             has_phone == "cell phone" \in s.objects
             has_laptop == "laptop" \in s.objects
             has_bottle == "bottle" \in s.objects
             has_cup == "cup" \in s.objects
             activity == classify_activity(s.pitch, s.yaw, s.gaze, s.ear,
                             has_book, has_phone, has_laptop, has_bottle, has_cup)
             verdict == evaluate_distraction(history, activity,
                                             s.pitch, s.gaze, s.ear)
         IN  [activity |-> activity, is_distracted |-> verdict[1],
              severity |-> verdict[2]]

\* self.current_activity after the call: the face-missing path returns
\* before the assignment of line 116
next_current_activity(old, s, activity) ==
    IF ~s.face_detected THEN old ELSE activity

analyze_context(s) ==
    LET r == analyze_result(activity_history, s)
    IN  /\ arg' = s
        /\ pre_history' = activity_history
        /\ ret' = r
        /\ activity_history' =
               DequeAppend(activity_history, r.activity, HISTORY_MAXLEN)
        /\ current_activity' = next_current_activity(current_activity, s, r.activity)
        /\ returned' = Append(returned, r.activity)
        /\ UNCHANGED <<susVars, scVars, prVars, svVars, odVars, drVars>>

(* ContextAnalyzer.is_sustained_distraction(threshold_seconds, fps) *)

\* int(threshold_seconds * fps), threshold_seconds given in half seconds
required_frames(threshold_halves, fps) == (threshold_halves * fps) \div 2

\* variant: the share is compared with >= 0.8
sustained_result_at_least(history, n) ==
    IF Len(history) < n THEN "False"
    ELSE IF n = 0 THEN "ZeroDivisionError"
    ELSE IF 5 * CountIn(LastN(history, n),
                        {PHONE_DISTRACTION, FACE_MISSING, LOOKING_AWAY}) >= 4 * n
         THEN "True" ELSE "False"

\* variant: a history shorter than the window is judged on what it holds
sustained_result_available(history, n) ==
    IF n = 0 THEN "ZeroDivisionError"
    ELSE IF history = <<>> THEN "False"
    ELSE IF 5 * CountIn(LastN(history, n),
                        {PHONE_DISTRACTION, FACE_MISSING, LOOKING_AWAY})
                > 4 * Len(LastN(history, n))
         THEN "True" ELSE "False"

\* The result for a required_frames of n; n = 0 divides by zero.
\* distracted_count / required_frames > 0.8 is 5 * count > 4 * n: a quotient
\* of two integers up to 30 rounds to the double 0.8 only when it is 4/5.
sustained_result(history, n) ==
    IF Len(history) < n THEN "False"
    ELSE IF n = 0 THEN "ZeroDivisionError"
    ELSE LET recent == LastN(history, n)
             distracted_count ==
                 CountIn(recent, {PHONE_DISTRACTION, FACE_MISSING, LOOKING_AWAY})
         IN  IF 5 * distracted_count > 4 * n THEN "True" ELSE "False"

is_sustained_distraction(threshold_halves, fps) ==
    /\ sus_arg' = [threshold_halves |-> threshold_halves, fps |-> fps]
    /\ sus_ret' = sustained_result(activity_history,
                                   required_frames(threshold_halves, fps))
    /\ UNCHANGED <<caCallVars, scVars, prVars, svVars, odVars, drVars>>

-----------------------------------------------------------------------------
(* AdaptiveAttentionScorer: operations *)

Here ==
    Snapshot(user_id, calibration_file, thresh, is_calibrated, calibration_data,
             files, last_get, finalized)

(* __init__(user_id, calibration_file): a new scorer in a new process.  *)
(* readable = FALSE: opening the file raises.                            *)
construct(uid, file, readable) ==
    LET u == EffectiveUserId(uid)
        f == EffectiveFile(uid, file)
        loaded == load_calibration(files[f], readable, u, DefaultThresholds)
    IN  /\ user_id' = u
        /\ calibration_file' = f
        /\ thresh' = loaded[1]
        /\ is_calibrated' = loaded[2]
        /\ calibration_data' = EmptyCalibrationData
        /\ anomaly_history' = EmptyAnomalyHistory
        /\ anomaly_log' = <<>>
        /\ last_get' = NoGet
        /\ finalized' = NoGet
        /\ op' = [name |-> "construct", readable |-> readable, loaded |-> loaded[3]]
        /\ pre' = Here
        /\ constructs' = constructs + 1
        /\ UNCHANGED <<files, adds, finalizes>>
        /\ UNCHANGED <<caCallVars, susVars, prVars, svVars, odVars, drVars>>

(* add_calibration_sample(ear, gaze, pitch, yaw, roll) *)
AppendPresent(seq, x) == IF x = None THEN seq ELSE Append(seq, Val(x))

add_calibration_sample(s) ==
    /\ calibration_data' =
           [ear_baseline |-> AppendPresent(calibration_data.ear_baseline, s.ear),
            gaze_baseline |-> AppendPresent(calibration_data.gaze_baseline, s.gaze),
            pitch_baseline |-> AppendPresent(calibration_data.pitch_baseline, s.pitch),
            yaw_baseline |-> AppendPresent(calibration_data.yaw_baseline, s.yaw),
            roll_baseline |-> AppendPresent(calibration_data.roll_baseline, s.roll)]
    /\ op' = [name |-> "add_calibration_sample", sample |-> s]
    /\ pre' = Here
    /\ adds' = adds + 1
    /\ UNCHANGED <<user_id, calibration_file, thresh, is_calibrated, anomaly_history,
                   anomaly_log, files, last_get, finalized, finalizes, constructs>>
    /\ UNCHANGED <<caCallVars, susVars, prVars, svVars, odVars, drVars>>

(* finalize_calibration(min_samples), lines 93-135, up to the save:  *)
(* what it returns and the thresholds and flag it leaves              *)

\* variant: the sample count is checked after the thresholds are computed
finalize_result_check_last(th, calibrated, cd, min_samples) ==
    IF Len(cd.ear_baseline) < min_samples
    THEN [ret |-> "False", thresh |-> finalize_thresholds(th, cd),
          is_calibrated |-> calibrated]
    ELSE [ret |-> "True", thresh |-> finalize_thresholds(th, cd),
          is_calibrated |-> TRUE]

\* variant: the flag is raised before the sample count is checked
finalize_result_flag_early(th, calibrated, cd, min_samples) ==
    IF Len(cd.ear_baseline) < min_samples
    THEN [ret |-> "False", thresh |-> th, is_calibrated |-> TRUE]
    ELSE [ret |-> "True", thresh |-> finalize_thresholds(th, cd),
          is_calibrated |-> TRUE]

finalize_result(th, calibrated, cd, min_samples) ==
    IF Len(cd.ear_baseline) < min_samples
    THEN [ret |-> "False", thresh |-> th, is_calibrated |-> calibrated]
    ELSE [ret |-> "True", thresh |-> finalize_thresholds(th, cd),
          is_calibrated |-> TRUE]

\* variant: an exception of the save reaches the caller
save_return_propagating(outcome) == IF outcome = "ok" THEN "True" ELSE "raised"

\* what finalize_calibration returns once _save_calibration has run: the
\* except clause of lines 218-219 swallows every failure
save_return(outcome) == "True"

finalize_calibration(min_samples, outcome) ==
    LET r == finalize_result(thresh, is_calibrated, calibration_data, min_samples)
    IN  /\ thresh' = r.thresh
        /\ is_calibrated' = r.is_calibrated
        /\ IF r.ret = "True"
           THEN /\ files' = [files EXCEPT ![calibration_file] =
                                saved_file(@, save_data(user_id, r.is_calibrated,
                                                        r.thresh, calibration_data),
                                           outcome)]
                /\ op' = [name |-> "finalize_calibration",
                          min_samples |-> min_samples, save |-> outcome,
                          ret |-> save_return(outcome)]
                /\ last_get' = NoGet
                /\ finalized' = [thresh |-> r.thresh, save |-> outcome]
           ELSE /\ files' = files
                /\ op' = [name |-> "finalize_calibration",
                          min_samples |-> min_samples, save |-> "not called",
                          ret |-> r.ret]
                /\ last_get' = last_get
                /\ finalized' = finalized
        /\ pre' = Here
        /\ finalizes' = finalizes + 1
        /\ UNCHANGED <<user_id, calibration_file, calibration_data, anomaly_history,
                       anomaly_log, adds, constructs>>
        /\ UNCHANGED <<caCallVars, susVars, prVars, svVars, odVars, drVars>>

(* detect_anomaly(ear, gaze, pitch) *)

\* lines 152-163: append what is present, keep the last 100
anomaly_append(h, s) ==
    [ear |-> LastN(AppendPresent(h.ear, s.ear), 100),
     gaze |-> LastN(AppendPresent(h.gaze, s.gaze), 100),
     pitch |-> LastN(AppendPresent(h.pitch, s.pitch), 100)]

\* np.var(seq[-30:]) < bound, with bound = num / den in the square of the unit;
\* an empty history has variance 1.0, which is above every bound
VarBelow(seq, num, den) ==
    IF seq = <<>> THEN FALSE
    ELSE LET recent == LastN(seq, 30)
         IN  den * VarTimesN2(recent) < num * Len(recent) * Len(recent)

\* variant: the variances are evaluated before the history is long enough
anomaly_result_no_minimum(h) ==
    IF \/ VarBelow(h.ear, 100, 1) \/ VarBelow(h.gaze, 10, 1)
       \/ VarBelow(h.pitch, 1, 2)
    THEN "True" ELSE "False"

\* lines 166-188, on the history as updated: ear variance < 0.0001,
\* gaze variance < 0.001 or pitch variance < 0.5
anomaly_result(h) ==
    IF Len(h.ear) < 30 THEN "False"
    ELSE IF \/ VarBelow(h.ear, 100, 1) \/ VarBelow(h.gaze, 10, 1)
            \/ VarBelow(h.pitch, 1, 2)
    THEN "True" ELSE "False"

detect_anomaly(s) ==
    /\ anomaly_history' = anomaly_append(anomaly_history, s)
    /\ anomaly_log' = Append(anomaly_log, s)
    /\ op' = [name |-> "detect_anomaly", sample |-> s,
              ret |-> anomaly_result(anomaly_history')]
    /\ pre' = Here
    /\ UNCHANGED <<user_id, calibration_file, thresh, is_calibrated, calibration_data,
                   files, last_get, finalized, adds, finalizes, constructs>>
    /\ UNCHANGED <<caCallVars, susVars, prVars, svVars, odVars, drVars>>

(* get_thresholds() *)
get_thresholds ==
    /\ op' = [name |-> "get_thresholds", ret |-> get_thresholds_result(thresh)]
    /\ last_get' = get_thresholds_result(thresh)
    /\ pre' = Here
    /\ UNCHANGED <<user_id, calibration_file, thresh, is_calibrated, calibration_data,
                   anomaly_history, anomaly_log, files, finalized, adds, finalizes,
                   constructs>>
    /\ UNCHANGED <<caCallVars, susVars, prVars, svVars, odVars, drVars>>

-----------------------------------------------------------------------------
(* PatternRecognizer: operations *)

\* __init__(window_size), lines 26-31; the caller says which signal the new
\* recognizer will be fed
recognizer_init(size) ==
    /\ window_size' = size
    /\ gaze_window' = <<>>
    /\ pitch_window' = <<>>
    /\ ear_window' = <<>>
    /\ pr_log' = <<>>
    /\ pr_op' = [name |-> "__init__"]
    /\ pr_pre' = Windows(gaze_window, pitch_window, ear_window)
    /\ UNCHANGED <<caCallVars, susVars, scVars, svVars, odVars, drVars>>

\* add_sample(gaze, pitch, ear), lines 40-45
add_sample(s) ==
    /\ gaze_window' = window_append(gaze_window, s.gaze, window_size)
    /\ pitch_window' = window_append(pitch_window, s.pitch, window_size)
    /\ ear_window' = window_append(ear_window, s.ear, window_size)
    /\ pr_log' = Append(pr_log, s)
    /\ pr_op' = [name |-> "add_sample"]
    /\ pr_pre' = Windows(gaze_window, pitch_window, ear_window)
    /\ UNCHANGED <<window_size, script>>
    /\ UNCHANGED <<caCallVars, susVars, scVars, svVars, odVars, drVars>>

\* a call of one of the detect_* / get_* methods: none of them writes a window
recognizer_call(name, result) ==
    /\ pr_op' = [name |-> name, ret |-> result]
    /\ pr_pre' = Windows(gaze_window, pitch_window, ear_window)
    /\ UNCHANGED <<window_size, gaze_window, pitch_window, ear_window, pr_log, script>>
    /\ UNCHANGED <<caCallVars, susVars, scVars, svVars, odVars, drVars>>

-----------------------------------------------------------------------------
(* Inputs *)

Sample(face, pitch, yaw, gaze, ear, objects) ==
    [face_detected |-> face, pitch |-> pitch, yaw |-> yaw, gaze |-> gaze,
     ear |-> ear, objects |-> objects]

ObjectLabels == {"book", "cell phone", "laptop", "bottle", "cup"}

\* both sides of every pitch comparison of the classifier, and no pitch
PitchValues == {None} \cup
    {Some(p) : p \in {-61, -60, -51, -50, -46, -45, -30, -29, -25, -24, -21, -20,
                      -19, -15, -14, 0, 1, 19, 20, 24, 25}}
\* both sides of every gaze comparison, and no gaze
GazeValues == {None} \cup {Some(g) : g \in {19, 20, 25, 26, 30, 31}}
YawValues == {None, Some(40)}
EarValues == {None, Some(10)}

AllSamples ==
    {Sample(f, p, y, g, e, o) :
        f \in BOOLEAN, p \in PitchValues, y \in YawValues, g \in GazeValues,
        e \in EarValues, o \in SUBSET ObjectLabels}

\* one frame per activity of the history-dependent rules, and two frames
\* without a face
DrinkingFrame == Sample(TRUE, Some(0), None, None, None, {"bottle"})
ThinkingFrame == Sample(TRUE, Some(0), None, Some(31), None, {})
NoFaceFrame == Sample(FALSE, None, None, None, None, {})
NoFacePhoneFrame == Sample(FALSE, Some(0), Some(40), Some(19), Some(10),
                           {"cell phone"})

PhoneFrame == Sample(TRUE, Some(-19), None, None, None, {"cell phone"})
LookingAwayFrame == Sample(TRUE, Some(24), None, Some(26), None, {})
FocusedFrame == Sample(TRUE, Some(0), None, Some(19), None, {})

ProbeSamples == {DrinkingFrame, ThinkingFrame, NoFaceFrame, FocusedFrame}

\* frames for the full window
WindowSamples == {DrinkingFrame, ThinkingFrame, NoFaceFrame, NoFacePhoneFrame,
                  PhoneFrame}

\* frames for the sustained-distraction window

SustainedSamples == {PhoneFrame, LookingAwayFrame, FocusedFrame, NoFaceFrame,
                     ThinkingFrame}

\* threshold_seconds in half seconds, and fps
ThresholdHalves == {1, 2, 3, 6}
FpsValues == {1, 3, 10, 30}


(* Inputs of the scorer *)
CalSample(ear, gaze, pitch, yaw, roll) ==
    [ear |-> ear, gaze |-> gaze, pitch |-> pitch, yaw |-> yaw, roll |-> roll]

FullSample == CalSample(Some(200), Some(30), Some(-30), Some(-20), Some(-4))
EyesOnlySample == CalSample(Some(260), Some(10), None, None, None)
NoEarSample == CalSample(None, Some(20), Some(10), None, Some(3))
CalibrationSamples == {FullSample, EyesOnlySample, NoEarSample}
PersistedSamples == {FullSample, EyesOnlySample}

MinSamplesValues == {1, 2}
SaveOutcomes == {"ok", "open_fails", "write_fails"}

AnomalySample(ear, gaze, pitch) == [ear |-> ear, gaze |-> gaze, pitch |-> pitch]

SteadyFrame == AnomalySample(Some(300), Some(10), Some(0))
NearSteadyFrame == AnomalySample(Some(301), Some(10), Some(0))
MovedFrame == AnomalySample(Some(200), Some(40), Some(-20))
EarOnlyFrame == AnomalySample(Some(250), None, None)
NoEarFrame == AnomalySample(None, Some(25), Some(-5))
AnomalySamples == {SteadyFrame, NearSteadyFrame, MovedFrame, EarOnlyFrame, NoEarFrame}

(* Inputs of the recognizer: the frame with number n of each signal *)
Scripts == {"reading", "thinking", "phone", "blinking", "touching", "sparse",
            "drifting"}

ScriptFrame(sc, n) ==
    CASE sc = "reading" ->
             \* gaze sweeps up in five steps and jumps back, head and eyes steady
             AnomalySample(Some(240), Some(15 + 2 * (n % 6)), Some(-35))
      [] sc = "thinking" ->
             \* gaze away for 15 frames and back for 15, two-frame blinks
             AnomalySample(Some(IF n % 20 < 2 THEN 100 ELSE 300),
                           Some(IF n % 30 < 15 THEN 30 ELSE 10),
                           Some(IF n % 2 = 0 THEN -10 ELSE -12))
      [] sc = "phone" ->
             \* head held at a steep angle, nothing moves
             AnomalySample(Some(230), Some(20), Some(-65))
      [] sc = "blinking" ->
             \* ear alternates between 0.10 and 0.20 every 3 frames, no gaze, no pose
             AnomalySample(Some(IF (n \div 3) % 2 = 0 THEN 100 ELSE 200), None, None)
      [] sc = "touching" ->
             \* ear falls to 0.10, rises to exactly 0.15, falls again, then opens
             AnomalySample(Some(CASE n % 20 = 0 -> 100 [] n % 20 = 1 -> 150
                                  [] n % 20 = 2 -> 100 [] OTHER -> 300),
                           Some(20 + (n % 3)), Some(-5 - (n % 4)))
      [] sc = "drifting" ->
             \* gaze moves one way only, a step every 8 frames, head and eyes steady
             AnomalySample(Some(250), Some(10 + (n \div 8)), Some(-10))
      [] sc = "sparse" ->
             \* ear on every other frame only, gaze missing on every third
             AnomalySample(IF n % 2 = 0 THEN Some(250 + (n % 5)) ELSE None,
                           IF n % 3 = 0 THEN None ELSE Some(10 + (n % 4)),
                           Some(-20 - (n % 10)))

WindowSizes == {0, 2, 30, 60, 61}

-----------------------------------------------------------------------------
(* ObjectDetector: operations *)

\* __init__(), lines 43-82; loaded = FALSE: ultralytics is missing or YOLO()
\* raised
detector_init(loaded) ==
    /\ od_enabled' = loaded
    /\ detection_history' = [obj \in ObjectNames |-> <<>>]
    /\ od_op' = [name |-> "__init__", loaded |-> loaded]
    /\ od_calls' = 0
    /\ UNCHANGED <<caCallVars, susVars, scVars, prVars, svVars, drVars>>

\* detect_objects(frame), lines 84-142; outcome = "raises": the model call of
\* line 103 raises, and the except clause of lines 140-142 answers
detect_objects(boxes, outcome) ==
    LET detected == detected_objects(boxes)
        history == [obj \in ObjectNames |->
                       history_append(detection_history[obj], detected[obj])]
    IN  /\ IF ~od_enabled
           THEN /\ od_op' = [name |-> "detect_objects", path |-> "disabled",
                             detected |-> NothingDetected, ret |-> NothingDetected]
                /\ detection_history' = detection_history
           ELSE IF outcome = "raises"
           THEN /\ od_op' = [name |-> "detect_objects", path |-> "raises",
                             detected |-> NothingDetected, ret |-> NothingDetected]
                /\ detection_history' = detection_history
           ELSE /\ od_op' = [name |-> "detect_objects", path |-> "voted",
                             detected |-> detected,
                             ret |-> filtered_objects(history, detected)]
                /\ detection_history' = history
        /\ od_calls' = od_calls + 1
        /\ od_enabled' = od_enabled
        /\ UNCHANGED <<caCallVars, susVars, scVars, prVars, svVars, drVars>>

-----------------------------------------------------------------------------
(* The driver loops: operations *)

HereDriver ==
    DriverSnapshot(DriverLocals(last_distracted, last_face_detected,
                                face_not_detected_time, face_detected_time,
                                distraction_start_time, t_now),
                   last_light, path_light, path_edge)

\* main() up to the loop: main.py lines 102-115, enhanced_main.py lines
\* 137-152; /session/start is posted
run_driver(which) ==
    /\ driver' = which
    /\ dr_op' = [name |-> "start", posts |-> <<[url |-> "/session/start"]>>]
    /\ dr_pre' = HereDriver
    /\ UNCHANGED <<last_distracted, last_face_detected, face_not_detected_time,
                   face_detected_time, distraction_start_time, t_now, dr_count,
                   last_light, path_light, path_edge>>
    /\ UNCHANGED <<caCallVars, susVars, scVars, prVars, svVars, odVars>>

\* one pass through the while loop, with the outcome r of its body
loop_iteration(r, face, activity, distracted, elapsed) ==
    /\ last_distracted' = r.locals.last_distracted
    /\ last_face_detected' = r.locals.last_face_detected
    /\ face_not_detected_time' = r.locals.face_not_detected_time
    /\ face_detected_time' = r.locals.face_detected_time
    /\ distraction_start_time' = r.locals.distraction_start_time
    /\ t_now' = r.locals.t_now
    /\ dr_op' = [name |-> "iteration", face |-> face, activity |-> activity,
                 distracted |-> distracted, elapsed |-> elapsed, posts |-> r.posts]
    /\ dr_pre' = HereDriver
    /\ dr_count' = dr_count + 1
    /\ last_light' = LatestPost(r.posts, "/light", {"distraction", "face"}, last_light)
    /\ path_light' = LatestPost(r.posts, "/light", {"distraction"}, path_light)
    /\ path_edge' = LatestPost(r.posts, "/session/edge", {"distraction"}, path_edge)
    /\ driver' = driver
    /\ UNCHANGED <<caCallVars, susVars, scVars, prVars, svVars, odVars>>

-----------------------------------------------------------------------------
(* Specifications *)

\* number of changes of activity between consecutive entries
Switches(seq) == Cardinality({i \in 1..(Len(seq) - 1) : seq[i] # seq[i + 1]})

\* Sessions long enough for the drinking and thinking counts to be reached
AnalyzeProbe ==
    /\ Len(returned) < MaxCalls
    /\ \E s \in ProbeSamples :
          /\ analyze_context(s)
          /\ Switches(returned') <= MaxSwitches

Next == AnalyzeProbe

Spec == Init /\ [][Next]_vars

\* Sessions longer than the history, which then drops its oldest entries
AnalyzeWindow ==
    /\ Len(returned) < MaxWindowCalls
    /\ \E s \in WindowSamples :
          /\ analyze_context(s)
          /\ Switches(returned') <= MaxWindowSwitches

NextWindow == AnalyzeWindow

SpecWindow == Init /\ [][NextWindow]_vars

\* One classified frame with any inputs, after at most MaxWarmup probe frames
AnalyzeAny ==
    /\ Len(returned) <= MaxWarmup
    /\ arg \in ProbeSamples \cup {NoCall}
    /\ \E s \in AllSamples : analyze_context(s)

NextClassify == AnalyzeAny

SpecClassify == Init /\ [][NextClassify]_vars

\* One frame with any inputs after a steady run of one probe frame
VerdictSamples == {s \in AllSamples : s.yaw = None /\ s.ear = None}

AnalyzeRun ==
    /\ Len(returned) < MaxRun
    /\ Switches(returned) = 0
    /\ \E s \in ProbeSamples :
          /\ arg \in {s, NoCall}
          /\ analyze_context(s)

AnalyzeAfterRun ==
    /\ Len(returned) <= MaxRun
    /\ arg \in ProbeSamples \cup {NoCall}
    /\ Switches(returned) = 0
    /\ \E s \in VerdictSamples : analyze_context(s)

NextVerdict == AnalyzeRun \/ AnalyzeAfterRun

SpecVerdict == Init /\ [][NextVerdict]_vars

\* Short sessions followed by is_sustained_distraction queries
AnalyzeSustained ==
    /\ Len(returned) < MaxSusCalls
    /\ sus_ret = "<no call>"
    /\ \E s \in SustainedSamples : analyze_context(s)

QuerySustained ==
    /\ sus_ret = "<no call>"
    /\ \E t \in ThresholdHalves, f \in FpsValues : is_sustained_distraction(t, f)

NextSustained == AnalyzeSustained \/ QuerySustained

SpecSustained == Init /\ [][NextSustained]_vars

\* Sessions that fill the history, followed by one is_sustained_distraction
\* query: with the default arguments (3.0 s at 30 fps, 90 frames), for 30, 31
\* and 15 frames
SustainedQueries == {<<DEFAULT_THRESHOLD_HALVES, DEFAULT_FPS>>,
                     <<DEFAULT_THRESHOLD_HALVES - 4, DEFAULT_FPS>>,
                     <<DEFAULT_THRESHOLD_HALVES - 4, DEFAULT_FPS + 1>>,
                     <<DEFAULT_THRESHOLD_HALVES - 5, DEFAULT_FPS>>}

LongSamples == {PhoneFrame, FocusedFrame, NoFaceFrame}

AnalyzeLong ==
    /\ Len(returned) < MaxLongCalls
    /\ sus_ret = "<no call>"
    /\ \E s \in LongSamples :
          /\ analyze_context(s)
          /\ Switches(returned') <= MaxLongSwitches

QueryLong ==
    /\ sus_ret = "<no call>"
    /\ \E q \in SustainedQueries : is_sustained_distraction(q[1], q[2])

NextSustainedFull == AnalyzeLong \/ QueryLong

SpecSustainedFull == Init /\ [][NextSustainedFull]_vars

\* one detector fed frame after frame
NoBoxes == <<>>
PhoneBox == <<Box(67, 30)>>
FaintPhoneBox == <<Box(67, 29)>>
BookBox == <<Box(0, 90), Box(73, 45)>>
DetectorFrames == {NoBoxes, PhoneBox, FaintPhoneBox, BookBox}
ModelOutcomes == {"ok", "raises"}

NewDetector ==
    /\ od_calls = 0
    /\ od_op.name = "<no call>"
    /\ \E loaded \in BOOLEAN : detector_init(loaded)

DetectObjects ==
    /\ od_calls < MaxDetectCalls
    /\ \E boxes \in DetectorFrames, outcome \in ModelOutcomes :
           detect_objects(boxes, outcome)

NextDetector == NewDetector \/ DetectObjects

SpecDetector == Init /\ [][NextDetector]_vars

\* one run of one of the two drivers: what a frame brings is whether a face
\* is found, the verdict on it (of Scorer.eval_scores in main.py, of
\* ContextAnalyzer.analyze_context in enhanced_main.py), the time since the
\* previous frame, and whether the posts to /light raise
ElapsedTimes == {1, 5}
LateTimes == {0, 1}
PostOutcomes == {"ok", "raises"}
Verdicts == {<<FOCUSED_STUDYING, FALSE>>, <<THINKING, TRUE>>,
             <<PHONE_DISTRACTION, TRUE>>}
NoVerdict == <<FACE_MISSING, TRUE>>

RunMain == driver = "none" /\ run_driver("main")

RunEnhanced == driver = "none" /\ run_driver("enhanced")

MainIteration ==
    /\ driver = "main"
    /\ dr_count < MaxDriverFrames
    /\ \E face \in BOOLEAN, distracted \in BOOLEAN, elapsed \in ElapsedTimes,
          late \in LateTimes :
           /\ ~face => ~distracted
           /\ loop_iteration(main_iteration(HereDriver.locals, face, distracted,
                                            elapsed, late),
                             face, UNKNOWN, distracted, elapsed)

EnhancedIteration ==
    /\ driver = "enhanced"
    /\ dr_count < MaxDriverFrames
    /\ \E face \in BOOLEAN, v \in Verdicts \cup {NoVerdict}, elapsed \in ElapsedTimes,
          late \in LateTimes, o1 \in PostOutcomes, o2 \in PostOutcomes :
           /\ face <=> v \in Verdicts
           /\ loop_iteration(enhanced_iteration(HereDriver.locals, face, v[1], v[2],
                                                elapsed, late, o1, o2),
                             face, v[1], v[2], elapsed)

NextDrivers == RunMain \/ RunEnhanced \/ MainIteration \/ EnhancedIteration

SpecDrivers == Init /\ [][NextDrivers]_vars

\* scorers are constructed over the same files, fed samples and finalized
\* with any save outcome
ConstructScorer ==
    /\ constructs < MaxConstructs
    /\ \E a \in ConstructArgs, readable \in BOOLEAN :
           construct(a[1], a[2], readable)

AddSample ==
    /\ adds < MaxAdds
    /\ \E s \in PersistedSamples : add_calibration_sample(s)

Finalize ==
    /\ finalizes < MaxFinalizes
    /\ \E min_samples \in MinSamplesValues, outcome \in SaveOutcomes :
           finalize_calibration(min_samples, outcome)

NextScorer == ConstructScorer \/ AddSample \/ Finalize

SpecScorer == Init /\ [][NextScorer]_vars

\* one calibration session of the scorer constructed by Init: samples, finalize
\* calls with any save outcome, threshold queries and anomaly checks
SessionAdd ==
    /\ adds < MaxSessionAdds
    /\ \E s \in CalibrationSamples : add_calibration_sample(s)

SessionFinalize ==
    /\ finalizes < MaxSessionFinalizes
    /\ \E min_samples \in MinSamplesValues, outcome \in SaveOutcomes :
           finalize_calibration(min_samples, outcome)

GetThresholds == get_thresholds

DetectOnce ==
    /\ Len(anomaly_log) < MaxSessionAnomalyCalls
    /\ detect_anomaly(SteadyFrame)

NextSession == SessionAdd \/ SessionFinalize \/ GetThresholds \/ DetectOnce

SpecSession == Init /\ [][NextSession]_vars

\* detect_anomaly called frame after frame on one scorer; the frames change
\* at most MaxAnomalySwitches times
DetectAnomaly ==
    /\ Len(anomaly_log) < MaxAnomalyCalls
    /\ \E s \in AnomalySamples :
           /\ Switches(Append(anomaly_log, s)) <= MaxAnomalySwitches
           /\ detect_anomaly(s)

NextAnomaly == DetectAnomaly

SpecAnomaly == Init /\ [][NextAnomaly]_vars

\* one recognizer fed the frames of one signal and queried at any time
NewRecognizer ==
    /\ pr_log = <<>>
    /\ \E size \in WindowSizes, sc \in Scripts :
           recognizer_init(size) /\ script' = sc

AddFrame ==
    /\ Len(pr_log) < MaxFrames
    /\ add_sample(ScriptFrame(script, Len(pr_log)))

DetectReading ==
    recognizer_call("detect_reading_pattern",
                    detect_reading_pattern(gaze_window, pitch_window))

DetectThinking ==
    recognizer_call("detect_thinking_pattern", detect_thinking_pattern(gaze_window))

DetectPhone ==
    recognizer_call("detect_phone_pattern", detect_phone_pattern(pitch_window))

DetectBlink ==
    recognizer_call("detect_blink_pattern", detect_blink_pattern(ear_window, window_size))

DetectMicroMovements ==
    recognizer_call("detect_micro_movements", detect_micro_movements(pitch_window))

GetEngagementScore ==
    recognizer_call("get_engagement_score",
                    get_engagement_score(gaze_window, pitch_window, ear_window, window_size))

GetPatternSummary ==
    recognizer_call("get_pattern_summary",
                    get_pattern_summary(gaze_window, pitch_window, ear_window, window_size))

NextPatterns ==
    \/ NewRecognizer \/ AddFrame \/ DetectReading \/ DetectThinking \/ DetectPhone
    \/ DetectBlink \/ DetectMicroMovements \/ GetEngagementScore \/ GetPatternSummary

SpecPatterns == Init /\ [][NextPatterns]_vars

\* the frame loop of enhanced_main (lines 240 and 255): every frame goes to
\* the recognizer and then to the scorer
FeedRecognizer ==
    /\ Len(pr_log) = Len(anomaly_log)
    /\ Len(pr_log) < MaxBufferFrames
    /\ add_sample(ScriptFrame(script, Len(pr_log)))

FeedScorer ==
    /\ Len(anomaly_log) < Len(pr_log)
    /\ detect_anomaly(pr_log[Len(anomaly_log) + 1])

NextBuffers == NewRecognizer \/ FeedRecognizer \/ FeedScorer

SpecBuffers == Init /\ [][NextBuffers]_vars

-----------------------------------------------------------------------------
(* SessionServerStore: operations, each run without interruption *)

\* "x = x or _utcnow()": the timestamp a call works with
Resolve(at) == IF at = None THEN now ELSE Val(at)

\* the timestamps of the calls on session sid, after a call with timestamp at
stamped(stamps, sid, at) ==
    IF sid > Len(stamps) THEN Append(stamps, [last |-> at, ordered |-> TRUE])
    ELSE [stamps EXCEPT ![sid] = [last |-> at, ordered |-> @.ordered /\ at >= @.last]]

\* the effect of one store call that leaves db behind and returns result
store_call(name, sid, at, result, db) ==
    /\ sessions' = db.sessions
    /\ intervals' = db.intervals
    /\ sv_op' = [name |-> name, sid |-> sid, at |-> at, ret |-> result]
    /\ sv_pre' = ServerSnapshot(sessions, intervals, session_store, session_id, proc)
    /\ sv_calls' = sv_calls + 1
    /\ sv_stamps' = stamped(sv_stamps, sid, at)
    /\ UNCHANGED <<now, frames, session_store, session_id, session_username, proc,
                   light_on_state, docs_at_stop>>
    /\ UNCHANGED <<caCallVars, susVars, scVars, prVars, odVars, drVars>>

\* start_session(user_id, username, None, started_at), lines 128-162
start_session(uid, username, started_at) ==
    store_call("start_session", Len(sessions) + 1, Resolve(started_at),
               Len(sessions) + 1,
               Database(Append(sessions, session_document(uid, username,
                                             Resolve(started_at), now)),
                        intervals))

\* mark_distracted(session_id, start_at), lines 207-229
mark_distracted(sid, start_at) ==
    store_call("mark_distracted", sid, Resolve(start_at), None,
               mark_distracted_db(Database(sessions, intervals), sid,
                                  Resolve(start_at), now))

\* mark_focused(session_id, end_at), lines 231-279
mark_focused(sid, end_at) ==
    store_call("mark_focused", sid, Resolve(end_at),
               mark_focused_ret(Database(sessions, intervals), sid, Resolve(end_at)),
               mark_focused_db(Database(sessions, intervals), sid,
                               Resolve(end_at), now))

\* stop_session(session_id, stopped_at), lines 164-204
stop_session(sid, stopped_at) ==
    store_call("stop_session", sid, Resolve(stopped_at),
               stop_session_ret(Database(sessions, intervals), sid,
                                Resolve(stopped_at), now),
               stop_session_db(Database(sessions, intervals), sid,
                               Resolve(stopped_at), now))

\* a millisecond passes
tick ==
    /\ now' = now + 1
    /\ UNCHANGED <<sessions, intervals, frames, session_store, session_id,
                   session_username, proc, light_on_state, sv_op, sv_pre,
                   docs_at_stop, sv_calls, sv_stamps>>
    /\ UNCHANGED <<caCallVars, susVars, scVars, prVars, odVars, drVars>>

-----------------------------------------------------------------------------
(* Inputs and specification of a store called by one thread *)

\* user_id and username of start_session: the defaults, and the usage notes'
\* example
StartArgs == {<<None, None>>, <<Some("u123"), Some("alice")>>}

\* a timestamp argument: left out, or a time that is in the past at the end
\* of the behaviour and not at its start
TimeArgs == {None, Some(MaxTime - 1)}

SessionIds == 1..Len(sessions)

StartSession ==
    /\ sv_calls < MaxStoreCalls
    /\ Len(sessions) < MaxStoreSessions
    /\ \E a \in StartArgs, at \in TimeArgs : start_session(a[1], a[2], at)

MarkDistracted ==
    /\ sv_calls < MaxStoreCalls
    /\ \E sid \in SessionIds, at \in TimeArgs : mark_distracted(sid, at)

MarkFocused ==
    /\ sv_calls < MaxStoreCalls
    /\ \E sid \in SessionIds, at \in TimeArgs : mark_focused(sid, at)

StopSession ==
    /\ sv_calls < MaxStoreCalls
    /\ \E sid \in SessionIds, at \in TimeArgs : stop_session(sid, at)

Tick == now < MaxTime /\ tick

NextStore == StartSession \/ MarkDistracted \/ MarkFocused \/ StopSession \/ Tick

SpecStore == Init /\ [][NextStore]_vars

-----------------------------------------------------------------------------
(* SessionServerStore called by several threads: mark_focused and          *)
(* stop_session take one step per Firestore request (the reads of lines    *)
(* 241 and 179, the set of line 257, the updates of lines 270 and 194).    *)
(* A call resolves its timestamp and sends its first request in one step.  *)

IdleThreads == {th \in Threads : frames[th].pc = "idle"}

\* what every step of a call leaves alone
step_frame(th, frame) ==
    /\ frames' = [frames EXCEPT ![th] = frame]
    /\ UNCHANGED <<now, session_store, session_id, session_username, proc,
                   light_on_state, sv_pre, docs_at_stop, sv_stamps>>
    /\ UNCHANGED <<caCallVars, susVars, scVars, prVars, odVars, drVars>>

\* the return of a call
step_return(th, result) ==
    sv_op' = [name |-> frames[th].method, sid |-> frames[th].sid,
              at |-> frames[th].at, ret |-> result, thread |-> th]

\* lines 237-250, for mark_focused called as method (itself or stop_session):
\* the snapshot is read, and the call goes on to its writes or returns None
mark_focused_get(th, method, sid, at) ==
    LET data == sessions[sid]
    IN  /\ sv_calls' = sv_calls + 1
        /\ UNCHANGED <<sessions, intervals>>
        /\ IF closes_interval(data)
           THEN /\ step_frame(th, [pc |-> "interval_set", method |-> method,
                                   sid |-> sid, at |-> at, data |-> data])
                /\ UNCHANGED sv_op
           ELSE IF method = "stop_session"
           THEN /\ step_frame(th, [pc |-> "session_get", method |-> method,
                                   sid |-> sid, at |-> at])
                /\ UNCHANGED sv_op
           ELSE /\ step_frame(th, Idle)
                /\ sv_op' = [name |-> method, sid |-> sid, at |-> at,
                             ret |-> None, thread |-> th]

\* lines 256-267: the interval document, computed from the snapshot
interval_set(th) ==
    LET f == frames[th]
    IN  /\ f.pc = "interval_set"
        /\ intervals' = Append(intervals, interval_document(f.sid, f.data, f.at, now))
        /\ step_frame(th, [f EXCEPT !.pc = "session_update"])
        /\ UNCHANGED <<sessions, sv_op, sv_calls>>

\* lines 270-279: the increments, then the return to the caller
session_update(th) ==
    LET f == frames[th]
    IN  /\ f.pc = "session_update"
        /\ sessions' = [sessions EXCEPT ![f.sid] =
                            close_interval(@, duration_ms(f.data, f.at), now)]
        /\ UNCHANGED <<intervals, sv_calls>>
        /\ IF f.method = "stop_session"
           THEN /\ step_frame(th, [pc |-> "session_get", method |-> f.method,
                                   sid |-> f.sid, at |-> f.at])
                /\ UNCHANGED sv_op
           ELSE /\ step_frame(th, Idle)
                /\ step_return(th, Some(duration_ms(f.data, f.at)))

\* stop_session, line 179: the snapshot the result is computed from
session_get(th) ==
    LET f == frames[th]
    IN  /\ f.pc = "session_get"
        /\ step_frame(th, [pc |-> "session_finalize", method |-> f.method,
                           sid |-> f.sid, at |-> f.at, data |-> sessions[f.sid]])
        /\ UNCHANGED <<sessions, intervals, sv_op, sv_calls>>

\* stop_session, lines 194-204
session_finalize(th) ==
    LET f == frames[th]
    IN  /\ f.pc = "session_finalize"
        /\ sessions' = [sessions EXCEPT ![f.sid] =
                            finalize_session(@, f.data, f.at, now)]
        /\ step_frame(th, Idle)
        /\ step_return(th, <<elapsed_ms_of(f.data, f.at),
                             focus_score(f.data.distractedTotalMs,
                                         elapsed_ms_of(f.data, f.at))>>)
        /\ UNCHANGED <<intervals, sv_calls>>

\* the calls the server makes: one session, created without arguments, and
\* no explicit timestamp
OpenSession == sessions = <<>> /\ start_session(None, None, None)

EdgeDistracted ==
    /\ sv_calls < MaxThreadCalls
    /\ \E sid \in SessionIds : mark_distracted(sid, None)

BeginMarkFocused ==
    /\ sv_calls < MaxThreadCalls
    /\ \E th \in IdleThreads, sid \in SessionIds :
           mark_focused_get(th, "mark_focused", sid, now)

BeginStopSession ==
    /\ sv_calls < MaxThreadCalls
    /\ \E th \in IdleThreads, sid \in SessionIds :
           mark_focused_get(th, "stop_session", sid, now)

WriteInterval == \E th \in Threads : frames[th].pc = "interval_set" /\ interval_set(th)

UpdateAggregates == \E th \in Threads : frames[th].pc = "session_update" /\ session_update(th)

ReadSession == \E th \in Threads : frames[th].pc = "session_get" /\ session_get(th)

FinalizeSession == \E th \in Threads : frames[th].pc = "session_finalize" /\ session_finalize(th)

NextStoreThreads ==
    \/ OpenSession
    \/ EdgeDistracted
    \/ BeginMarkFocused
    \/ BeginStopSession
    \/ WriteInterval
    \/ UpdateAggregates
    \/ ReadSession
    \/ FinalizeSession
    \/ Tick

SpecStoreThreads == Init /\ [][NextStoreThreads]_vars

-----------------------------------------------------------------------------
(* The Flask server: the request handlers of server.py, each run without   *)
(* interruption.  A store call made by a handler either succeeds or raises *)
(* before it has written anything; stop_session may also raise after its  *)
(* mark_focused has returned.  The WebSocket clients are not modelled.     *)

StoreObject == "SessionServerStore()"

\* "session_store and session_id" (lines 161, 300, 328), which for a store
\* object and a document id is the negation of the test of lines 113 and 136
Held == session_store # None /\ session_id # None

\* the JSON body of a response, and the store methods the handler called
Response(name, status, sid, result, called) ==
    [name |-> name, status |-> status, sessionId |-> sid, result |-> result,
     called |-> called]

\* a request served: the documents and the session globals it leaves behind
request(resp, db, store, sid) ==
    /\ sessions' = db.sessions
    /\ intervals' = db.intervals
    /\ session_store' = store
    /\ session_id' = sid
    /\ sv_op' = resp
    /\ sv_pre' = ServerSnapshot(sessions, intervals, session_store, session_id, proc)
    /\ sv_calls' = sv_calls + 1
    /\ UNCHANGED <<now, frames, sv_stamps>>
    /\ UNCHANGED <<caCallVars, susVars, scVars, prVars, odVars, drVars>>

\* lines 100-109: the username of the body, or the one bound by /start
effective_username(username) ==
    IF username = None THEN session_username ELSE username

\* POST /session/start, lines 92-122
session_start(username, outcome) ==
    /\ IF Held
       THEN request(Response("session_start", "ok", session_id, None, <<>>),
                    Database(sessions, intervals), session_store, session_id)
       ELSE IF outcome = "raises"
       THEN request(Response("session_start", "skipped", None, None,
                             <<"start_session">>),
                    Database(sessions, intervals), session_store, session_id)
       ELSE request(Response("session_start", "ok", Some(Len(sessions) + 1),
                             None, <<"start_session">>),
                    Database(Append(sessions,
                                    session_document(None,
                                        effective_username(username), now, now)),
                             intervals),
                    Some(StoreObject), Some(Len(sessions) + 1))
    /\ UNCHANGED <<session_username, proc, light_on_state, docs_at_stop>>

\* the mark_distracted or mark_focused call of lines 141-144
edge_db(db, sid, distracted) ==
    IF distracted THEN mark_distracted_db(db, sid, now, now)
    ELSE mark_focused_db(db, sid, now, now)

edge_method(distracted) ==
    IF distracted THEN "mark_distracted" ELSE "mark_focused"

\* POST /session/edge, lines 125-149
session_edge(distracted, create_outcome, mark_outcome) ==
    /\ IF ~Held /\ create_outcome = "raises"
       THEN request(Response("session_edge", "skipped", None, None,
                             <<"start_session">>),
                    Database(sessions, intervals), session_store, session_id)
       ELSE LET created == IF Held THEN sessions
                           ELSE Append(sessions,
                                       session_document(None, None, now, now))
                sid == IF Held THEN Val(session_id) ELSE Len(sessions) + 1
                calls == IF Held THEN <<>> ELSE <<"start_session">>
            IN  IF mark_outcome = "raises"
                THEN request(Response("session_edge", "skipped", None, None,
                                      Append(calls, edge_method(distracted))),
                             Database(created, intervals),
                             Some(StoreObject), Some(sid))
                ELSE request(Response("session_edge", "ok", Some(sid), None,
                                      Append(calls, edge_method(distracted))),
                             edge_db(Database(created, intervals), sid, distracted),
                             Some(StoreObject), Some(sid))
    /\ UNCHANGED <<session_username, proc, light_on_state, docs_at_stop>>

\* the documents after a stop_session call of the given outcome
finalize_db(sid, outcome) ==
    IF outcome = "ok"
    THEN stop_session_db(Database(sessions, intervals), sid, now, now)
    ELSE IF outcome = "raises_late"
    THEN mark_focused_db(Database(sessions, intervals), sid, now, now)
    ELSE Database(sessions, intervals)

\* variant: the session globals are cleared only when stop_session returned
cleared_after_success(outcome) ==
    IF outcome = "ok" THEN None ELSE session_store

\* the "finally" of lines 168-170, 307-309 and 334-336
cleared_after(outcome) == None

\* POST /session/stop, lines 152-172
session_stop(outcome) ==
    /\ IF Held
       THEN request(IF outcome = "ok"
                    THEN Response("session_stop", "ok", session_id,
                                  Some(stop_session_ret(Database(sessions, intervals),
                                                        Val(session_id), now, now)),
                                  <<"stop_session">>)
                    ELSE Response("session_stop", "skipped", None, None,
                                  <<"stop_session">>),
                    finalize_db(Val(session_id), outcome),
                    cleared_after(outcome),
                    IF cleared_after(outcome) = None THEN None ELSE session_id)
       ELSE request(Response("session_stop", "noop", None, None, <<>>),
                    Database(sessions, intervals), None, None)
    /\ docs_at_stop' = Len(sessions)
    /\ UNCHANGED <<session_username, proc, light_on_state>>

\* "proc is None or proc.poll() is not None", line 298
NotRunning == proc = NoProcess \/ proc = "exited"

\* POST /stop, lines 295-340: the vision process is terminated (or killed
\* after the timeout), the LED state is reset, and the held session finalized
stop(outcome) ==
    /\ LET status == IF NotRunning THEN "not running" ELSE "stopped"
       IN  IF Held
           THEN request(IF outcome = "ok"
                        THEN Response("stop", status, session_id,
                                      Some(stop_session_ret(Database(sessions, intervals),
                                                            Val(session_id), now, now)),
                                      <<"stop_session">>)
                        ELSE Response("stop", status, None, None,
                                      <<"stop_session">>),
                        finalize_db(Val(session_id), outcome),
                        cleared_after(outcome),
                        IF cleared_after(outcome) = None THEN None ELSE session_id)
           ELSE request(Response("stop", status, None, None, <<>>),
                        Database(sessions, intervals), session_store, session_id)
    /\ proc' = IF NotRunning THEN proc ELSE NoProcess
    /\ light_on_state' = IF NotRunning THEN light_on_state ELSE FALSE
    /\ docs_at_stop' = Len(sessions)
    /\ UNCHANGED session_username

\* POST /start, lines 224-291: Popen succeeds ("started"), the child exits
\* within the 0.3 s ("failed"), or Popen raises ("error")
start(posted_username, outcome) ==
    /\ IF proc = "running"
       THEN /\ request(Response("start", "already running", None, None, <<>>),
                       Database(sessions, intervals), session_store, session_id)
            /\ UNCHANGED <<session_username, proc, light_on_state>>
       ELSE /\ request(Response("start", outcome, None, None, <<>>),
                       Database(sessions, intervals), session_store, session_id)
            /\ session_username' = IF posted_username = None THEN session_username
                                   ELSE posted_username
            /\ proc' = IF outcome = "started" THEN "running" ELSE NoProcess
            /\ light_on_state' = IF outcome = "started" THEN FALSE
                                 ELSE light_on_state
    /\ UNCHANGED docs_at_stop

\* POST /light, lines 61-86
light(val) ==
    /\ request(Response("light", "ok", None, None, <<>>),
               Database(sessions, intervals), session_store, session_id)
    /\ light_on_state' = val
    /\ UNCHANGED <<session_username, proc, docs_at_stop>>

\* the vision process ends by itself: proc.poll() is no longer None
process_exits ==
    /\ proc = "running"
    /\ proc' = "exited"
    /\ UNCHANGED <<sessions, intervals, now, frames, session_store, session_id,
                   session_username, light_on_state, sv_op, sv_pre, docs_at_stop,
                   sv_calls, sv_stamps>>
    /\ UNCHANGED <<caCallVars, susVars, scVars, prVars, odVars, drVars>>

-----------------------------------------------------------------------------
(* Inputs and specification of a server that handles one request at a time *)

Usernames == {None, Some("alice")}

StoreOutcomes == {"ok", "raises"}

StopOutcomes == {"ok", "raises", "raises_late"}

StartOutcomes == {"started", "failed", "error"}

PostSessionStart ==
    /\ sv_calls < MaxRequests
    /\ \E username \in Usernames, outcome \in StoreOutcomes :
           session_start(username, outcome)

PostSessionEdge ==
    /\ sv_calls < MaxRequests
    /\ \E distracted \in BOOLEAN, created \in StoreOutcomes, marked \in StoreOutcomes :
           session_edge(distracted, created, marked)

PostSessionStop ==
    /\ sv_calls < MaxRequests
    /\ \E outcome \in StopOutcomes : session_stop(outcome)

PostStop ==
    /\ sv_calls < MaxRequests
    /\ \E outcome \in StopOutcomes : stop(outcome)

PostStart ==
    /\ sv_calls < MaxRequests
    /\ \E username \in Usernames, outcome \in StartOutcomes : start(username, outcome)

PostLight ==
    /\ sv_calls < MaxRequests
    /\ \E val \in BOOLEAN : light(val)

ProcessExits == proc = "running" /\ process_exits

NextServer ==
    \/ PostSessionStart
    \/ PostSessionEdge
    \/ PostSessionStop
    \/ PostStop
    \/ PostStart
    \/ PostLight
    \/ ProcessExits
    \/ Tick

SpecServer == Init /\ [][NextServer]_vars

-----------------------------------------------------------------------------
(* The server handling requests in threads (app.run, line 380): the        *)
(* handlers of /session/start and /session/edge take one step per test of  *)
(* the session globals and per store call; the store calls succeed, the    *)
(* requests carry an empty JSON object (as main.py posts them), and they   *)
(* are served within one millisecond.                                      *)

\* a step of a handler that has not answered yet
handler_step(th, frame) ==
    /\ frames' = [frames EXCEPT ![th] = frame]
    /\ UNCHANGED <<now, session_username, proc, light_on_state, sv_op, sv_pre,
                   docs_at_stop, sv_stamps>>
    /\ UNCHANGED <<caCallVars, susVars, scVars, prVars, odVars, drVars>>

\* the answer of a handler that took steps
handler_return(th, resp) ==
    /\ frames' = [frames EXCEPT ![th] = Idle]
    /\ sv_op' = resp
    /\ sv_pre' = ServerSnapshot(sessions, intervals, session_store, session_id, proc)
    /\ UNCHANGED <<now, session_username, proc, light_on_state, docs_at_stop,
                   sv_stamps>>
    /\ UNCHANGED <<caCallVars, susVars, scVars, prVars, odVars, drVars>>

\* /session/start up to the test of line 113
session_start_check(th, username) ==
    /\ sv_calls' = sv_calls + 1
    /\ UNCHANGED <<sessions, intervals, session_store, session_id>>
    /\ IF Held
       THEN handler_return(th, Response("session_start", "ok", session_id,
                                        None, <<>>))
       ELSE handler_step(th, [pc |-> "create", handler |-> "session_start",
                              username |-> effective_username(username)])

\* /session/edge up to the test of line 136
session_edge_check(th, distracted) ==
    /\ sv_calls' = sv_calls + 1
    /\ UNCHANGED <<sessions, intervals, session_store, session_id>>
    /\ IF Held
       THEN handler_step(th, [pc |-> "mark", handler |-> "session_edge",
                              distracted |-> distracted, called |-> <<>>])
       ELSE handler_step(th, [pc |-> "create", handler |-> "session_edge",
                              username |-> None, distracted |-> distracted])

\* lines 114-115 and 137-138: SessionServerStore().start_session(...)
session_create(th) ==
    LET f == frames[th]
    IN  /\ f.pc = "create"
        /\ sessions' = Append(sessions, session_document(None, f.username, now, now))
        /\ handler_step(th, [f EXCEPT !.pc = "bind"] @@ [sid |-> Len(sessions) + 1])
        /\ UNCHANGED <<intervals, session_store, session_id, sv_calls>>

\* lines 116 and 139: session_store, session_id = store, sid; /session/start
\* then answers with the global session_id
session_bind(th) ==
    LET f == frames[th]
    IN  /\ f.pc = "bind"
        /\ session_store' = Some(StoreObject)
        /\ session_id' = Some(f.sid)
        /\ UNCHANGED <<sessions, intervals, sv_calls>>
        /\ IF f.handler = "session_start"
           THEN handler_return(th, Response("session_start", "ok", Some(f.sid),
                                            None, <<"start_session">>))
           ELSE handler_step(th, [pc |-> "mark", handler |-> "session_edge",
                                  distracted |-> f.distracted,
                                  called |-> <<"start_session">>])

\* lines 141-147: the edge is recorded in the session the globals name now;
\* with the globals cleared by a stop, the attribute access raises
session_mark(th) ==
    LET f == frames[th]
    IN  /\ f.pc = "mark"
        /\ UNCHANGED <<session_store, session_id, sv_calls>>
        /\ IF Held
           THEN /\ sessions' = edge_db(Database(sessions, intervals),
                                       Val(session_id), f.distracted).sessions
                /\ intervals' = edge_db(Database(sessions, intervals),
                                        Val(session_id), f.distracted).intervals
                /\ handler_return(th, Response("session_edge", "ok", session_id, None,
                                      Append(f.called, edge_method(f.distracted))))
           ELSE /\ UNCHANGED <<sessions, intervals>>
                /\ handler_return(th, Response("session_edge", "skipped", None,
                                               None, f.called))

BeginSessionStart ==
    /\ sv_calls < MaxThreadRequests
    /\ \E th \in IdleThreads : session_start_check(th, None)

BeginSessionEdge ==
    /\ sv_calls < MaxThreadRequests
    /\ \E th \in IdleThreads, distracted \in BOOLEAN : session_edge_check(th, distracted)

CreateSession == \E th \in Threads : frames[th].pc = "create" /\ session_create(th)

BindSession == \E th \in Threads : frames[th].pc = "bind" /\ session_bind(th)

RecordEdge == \E th \in Threads : frames[th].pc = "mark" /\ session_mark(th)

ServeSessionStop ==
    /\ sv_calls < MaxThreadRequests
    /\ \E outcome \in StopOutcomes : session_stop(outcome)

NextServerThreads ==
    \/ BeginSessionStart
    \/ BeginSessionEdge
    \/ CreateSession
    \/ BindSession
    \/ RecordEdge
    \/ ServeSessionStop

SpecServerThreads == Init /\ [][NextServerThreads]_vars

-----------------------------------------------------------------------------
(* Specification of one session worked on by one caller *)

FirstSession ==
    /\ sessions = <<>>
    /\ \E a \in StartArgs, at \in TimeArgs : start_session(a[1], a[2], at)

NextDistracted ==
    /\ sv_calls < MaxOneSessionCalls
    /\ \E sid \in SessionIds, at \in TimeArgs : mark_distracted(sid, at)

NextFocused ==
    /\ sv_calls < MaxOneSessionCalls
    /\ \E sid \in SessionIds, at \in TimeArgs : mark_focused(sid, at)

NextStopped ==
    /\ sv_calls < MaxOneSessionCalls
    /\ \E sid \in SessionIds, at \in TimeArgs : stop_session(sid, at)

NextOneSession == FirstSession \/ NextDistracted \/ NextFocused \/ NextStopped \/ Tick

SpecOneSession == Init /\ [][NextOneSession]_vars

-----------------------------------------------------------------------------
(* Properties *)

Called == arg # NoCall
Triple(a, d, sev) == [activity |-> a, is_distracted |-> d, severity |-> sev]

\* C1: every analyze_context call with face_detected = false returns
\* (face_missing, true, 0.8), whatever the other arguments and the history, and
\* appends exactly one face_missing entry to the history (dropping the oldest
\* entry when the history is full).
Thm_C1_FaceMissing ==
    (Called /\ ~arg.face_detected) =>
        /\ ret = Triple(FACE_MISSING, TRUE, 8)
        /\ activity_history =
               LastN(pre_history \o <<FACE_MISSING>>, HISTORY_MAXLEN)

\* a face-less frame that carries a phone and a pitch arrives on a full history
\* of another activity
Wit_C1_FaceMissing ==
    /\ arg = NoFacePhoneFrame
    /\ Len(pre_history) = HISTORY_MAXLEN
    /\ pre_history[HISTORY_MAXLEN] = DRINKING_WATER
    /\ ret.activity = FACE_MISSING

\* The rules of the specification, in priority order, as predicates of
\* (pitch, gaze, objects) alone.
RuleOrder == <<DRINKING_WATER, PHONE_DISTRACTION, READING_BOOK, TAKING_NOTES,
               TYPING, THINKING, LOOKING_AWAY, FOCUSED_STUDYING>>

RuleHolds(a, pitch, gaze, objects) ==
    CASE a = DRINKING_WATER ->
            ({"bottle", "cup"} \cap objects # {}) /\ pitch > -15
      [] a = PHONE_DISTRACTION -> "cell phone" \in objects \/ pitch < -60
      [] a = READING_BOOK -> "book" \in objects /\ pitch \in -45..-25
      [] a = TAKING_NOTES ->
            ({"book", "cell phone", "bottle", "cup"} \cap objects = {})
            /\ pitch \in -50..-30
      [] a = TYPING -> "laptop" \in objects /\ pitch \in -20..0
      [] a = THINKING -> gaze # None /\ Val(gaze) > 30 /\ Abs(pitch) < 20
      [] a = LOOKING_AWAY -> gaze # None /\ Val(gaze) > 25
      [] a = FOCUSED_STUDYING ->
            Abs(pitch) < 25 /\ (gaze = None \/ Val(gaze) < 20)

FirstRule(pitch, gaze, objects) ==
    LET hits == {i \in 1..Len(RuleOrder) :
                    RuleHolds(RuleOrder[i], pitch, gaze, objects)}
    IN  IF hits = {} THEN UNKNOWN
        ELSE RuleOrder[CHOOSE i \in hits : \A j \in hits : i <= j]

\* C2: for a face-detected call with pitch present the returned activity is
\* that of the first rule, in the order DrinkingWater, PhoneDistraction,
\* ReadingBook, TakingNotes, Typing, Thinking, LookingAway, FocusedStudying,
\* whose predicate holds of (pitch, gaze, objects), and Unknown when none does;
\* history, yaw and ear have no influence.
Thm_C2_FirstMatch ==
    (Called /\ arg.face_detected /\ arg.pitch # None) =>
        ret.activity = FirstRule(Val(arg.pitch), arg.gaze, arg.objects)

\* a phone and a book at reading angle, with yaw and ear given and a history:
\* the phone rule and the reading rule both hold and the phone rule wins
Wit_C2_FirstMatch ==
    /\ Called /\ arg.face_detected
    /\ arg.pitch = Some(-30) /\ {"cell phone", "book"} \subseteq arg.objects
    /\ arg.yaw # None /\ arg.ear # None
    /\ pre_history # <<>>
    /\ ret.activity = PHONE_DISTRACTION

\* C3 as stated: with a face, a pitch and a cell phone present the result is
\* (phone_distraction, true, 0.9) at any pitch and whatever other objects are
\* present; likewise whenever pitch < -60 with no object present.
Cex_C3_PhoneAlways ==
    (Called /\ arg.face_detected /\ arg.pitch # None) =>
        /\ "cell phone" \in arg.objects => ret = Triple(PHONE_DISTRACTION, TRUE, 9)
        /\ (Val(arg.pitch) < -60 /\ arg.objects = {}) =>
               ret = Triple(PHONE_DISTRACTION, TRUE, 9)

\* C3 (amended): with a face, a pitch and a cell phone present the result is
\* (phone_distraction, true, 0.9) at any pitch and whatever other objects are
\* present, unless a bottle or a cup is present with pitch > -15 (the drinking
\* rule comes first); likewise whenever pitch < -60 with no object present.
Thm_C3_PhoneUnlessDrinking ==
    (Called /\ arg.face_detected /\ arg.pitch # None) =>
        /\ ("cell phone" \in arg.objects
            /\ ~(({"bottle", "cup"} \cap arg.objects # {}) /\ Val(arg.pitch) > -15))
           => ret = Triple(PHONE_DISTRACTION, TRUE, 9)
        /\ (Val(arg.pitch) < -60 /\ arg.objects = {}) =>
               ret = Triple(PHONE_DISTRACTION, TRUE, 9)

\* a phone together with a bottle at the drinking boundary pitch of -15
Wit_C3_PhoneUnlessDrinking ==
    /\ Called /\ arg.face_detected
    /\ arg.pitch = Some(-15) /\ {"cell phone", "bottle"} \subseteq arg.objects
    /\ ret = Triple(PHONE_DISTRACTION, TRUE, 9)

\* C4: with a face but no pitch the call returns (unknown, true, 0.3) for every
\* combination of the other inputs, a phone, book, bottle or cup included, and
\* appends unknown to the history.
Thm_C4_NoPitchUnknown ==
    (Called /\ arg.face_detected /\ arg.pitch = None) =>
        /\ ret = Triple(UNKNOWN, TRUE, 3)
        /\ activity_history = pre_history \o <<UNKNOWN>>

\* no pitch, with a phone and a bottle in view and a gaze that looks away
Wit_C4_NoPitchUnknown ==
    /\ Called /\ arg.face_detected /\ arg.pitch = None
    /\ {"cell phone", "bottle", "book", "cup"} \subseteq arg.objects
    /\ arg.gaze = Some(31)
    /\ pre_history # <<>>
    /\ ret.activity = UNKNOWN

\* C5: the verdict of every activity other than DrinkingWater and Thinking is
\* fixed whatever the history: FocusedStudying, ReadingBook, TakingNotes and
\* Typing give (false, 0.0), PhoneDistraction (true, 0.9), FaceMissing
\* (true, 0.8), LookingAway (true, 0.5), Unknown (true, 0.3); every severity
\* lies in [0, 1] and a frame that is not distracted has severity 0.0 or 0.1.
Thm_C5_FixedVerdicts ==
    Called =>
        /\ ret.activity \in {FOCUSED_STUDYING, READING_BOOK, TAKING_NOTES, TYPING}
              => (~ret.is_distracted /\ ret.severity = 0)
        /\ ret.activity = PHONE_DISTRACTION => (ret.is_distracted /\ ret.severity = 9)
        /\ ret.activity = FACE_MISSING => (ret.is_distracted /\ ret.severity = 8)
        /\ ret.activity = LOOKING_AWAY => (ret.is_distracted /\ ret.severity = 5)
        /\ ret.activity = UNKNOWN => (ret.is_distracted /\ ret.severity = 3)
        /\ ret.severity \in 0..10
        /\ ~ret.is_distracted => ret.severity \in {0, 1}

\* a looking-away frame after a run of thinking frames long enough to have
\* made a thinking frame a distraction
Wit_C5_FixedVerdicts ==
    /\ Called /\ ret.activity = LOOKING_AWAY
    /\ CountIn(pre_history, {THINKING}) >= 8
    /\ ret.is_distracted

\* C6: a frame classified DrinkingWater is reported (true, 0.2) if and only
\* if at least 15 entries of the history held before the frame is appended are
\* DrinkingWater, otherwise (false, 0.0); a frame classified Thinking is
\* reported (true, 0.3) if and only if at least 8 of those entries are
\* Thinking, otherwise (false, 0.1).
Thm_C6_CountHysteresis ==
    Called =>
        /\ ret.activity = DRINKING_WATER =>
              ret = IF CountIn(pre_history, {DRINKING_WATER}) >= 15
                    THEN Triple(DRINKING_WATER, TRUE, 2)
                    ELSE Triple(DRINKING_WATER, FALSE, 0)
        /\ ret.activity = THINKING =>
              ret = IF CountIn(pre_history, {THINKING}) >= 8
                    THEN Triple(THINKING, TRUE, 3)
                    ELSE Triple(THINKING, FALSE, 1)

\* the sixteenth drinking frame: exactly 15 drinking entries precede it
Wit_C6_CountHysteresis ==
    /\ Called /\ ret = Triple(DRINKING_WATER, TRUE, 2)
    /\ CountIn(pre_history, {DRINKING_WATER}) = 15

\* the most recent n entries of the history are an unbroken run of activity a
UnbrokenRun(history, a, n) ==
    /\ Len(history) >= n
    /\ \A i \in (Len(history) - n + 1)..Len(history) : history[i] = a

\* C7 as stated: a DrinkingWater (resp. Thinking) frame is reported distracted
\* only when the most recent 15 (resp. 8) history entries before it are an
\* unbroken run of that activity; frames separated by other activities never
\* add up to a distraction verdict.
Cex_C7_RunLength ==
    (Called /\ ret.is_distracted) =>
        /\ ret.activity = DRINKING_WATER => UnbrokenRun(pre_history, DRINKING_WATER, 15)
        /\ ret.activity = THINKING => UnbrokenRun(pre_history, THINKING, 8)

\* C7 (amended): a DrinkingWater (resp. Thinking) frame is reported distracted
\* only when at least 15 (resp. 8) of the history entries before it are that
\* same activity, in a run or not; entries of other activities never count
\* towards the verdict.
Thm_C7_SameActivityCount ==
    (Called /\ ret.is_distracted) =>
        /\ ret.activity = DRINKING_WATER =>
              Cardinality({i \in DOMAIN pre_history :
                              pre_history[i] = DRINKING_WATER}) >= 15
        /\ ret.activity = THINKING =>
              Cardinality({i \in DOMAIN pre_history :
                              pre_history[i] = THINKING}) >= 8

\* a drinking frame reported distracted although the run before it is broken
Wit_C7_SameActivityCount ==
    /\ Called /\ ret.activity = DRINKING_WATER /\ ret.is_distracted
    /\ ~UnbrokenRun(pre_history, DRINKING_WATER, 15)

\* C8: the history holds at most 30 entries and equals, in order, the
\* activities returned by the most recent min(n, 30) calls; every call appends
\* the label it returns and the oldest entry is the one dropped on overflow.
Thm_C8_HistoryWindow ==
    /\ Len(activity_history) <= 30
    /\ Len(activity_history) = IF Len(returned) < 30 THEN Len(returned) ELSE 30
    /\ \A i \in 1..Len(activity_history) :
          activity_history[i] =
              returned[Len(returned) - Len(activity_history) + i]
    /\ Called => activity_history[Len(activity_history)] = ret.activity

\* more than 30 calls, the first of an activity that the last 30 do not hold
Wit_C8_HistoryWindow ==
    /\ Len(returned) > 30
    /\ \A i \in 1..Len(activity_history) : activity_history[i] # returned[1]
    /\ ~arg.face_detected

\* the number of frames a query asks for, and the distracted ones among them
SusN == required_frames(sus_arg.threshold_halves, sus_arg.fps)
SusCount ==
    Cardinality({i \in DOMAIN activity_history :
                    /\ i > Len(activity_history) - SusN
                    /\ activity_history[i] \in
                           {PHONE_DISTRACTION, FACE_MISSING, LOOKING_AWAY}})
SusCalled == sus_ret # "<no call>"

\* C9 as stated: for N >= 1 the query is false on a history shorter than N and
\* otherwise true exactly when at least 80% of the last N entries are
\* distracted ones (true at exactly 80%).
Cex_C9_AtLeast80 ==
    (SusCalled /\ SusN >= 1) =>
        sus_ret = IF Len(activity_history) >= SusN /\ 5 * SusCount >= 4 * SusN
                  THEN "True" ELSE "False"

\* C9 (amended): for N >= 1 the query is false on a history shorter than N and
\* otherwise true exactly when more than 80% of the last N entries are
\* distracted ones (false at exactly 80%).
Thm_C9_MoreThan80 ==
    (SusCalled /\ SusN >= 1) =>
        sus_ret = IF Len(activity_history) >= SusN /\ 5 * SusCount > 4 * SusN
                  THEN "True" ELSE "False"

\* a query over 5 frames of which exactly 4 are distracted ones
Wit_C9_MoreThan80 ==
    /\ SusCalled /\ SusN = 5 /\ Len(activity_history) > 5
    /\ SusCount = 4
    /\ sus_ret = "False"

\* C10: after every analyze_context call current_activity equals the activity
\* the call returned, which is the newest entry of the history.
Cex_C10_CurrentActivity ==
    Called =>
        /\ current_activity = ret.activity
        /\ current_activity = activity_history[Len(activity_history)]


-----------------------------------------------------------------------------
(* Properties of AdaptiveAttentionScorer *)

Did(name) == op.name = name
FinalizeFailed == Did("finalize_calibration") /\ op.ret = "False"
FinalizeSucceeded == Did("finalize_calibration") /\ op.ret = "True"
ThresholdNames == {"ear_thresh", "gaze_thresh", "roll_thresh", "pitch_thresh", "yaw_thresh"}
BaselineOf(name) ==
    CASE name = "ear_thresh" -> "ear_baseline"
      [] name = "gaze_thresh" -> "gaze_baseline"
      [] name = "roll_thresh" -> "roll_baseline"
      [] name = "pitch_thresh" -> "pitch_baseline"
      [] name = "yaw_thresh" -> "yaw_baseline"

\* C11: finalize_calibration(min_samples) called while the ear baseline holds
\* fewer than min_samples values returns false and changes nothing: the five
\* thresholds, the calibrated flag, the baselines and the files are as before.
Thm_C11_FailedFinalize ==
    (Did("finalize_calibration") /\ Len(pre.calibration_data.ear_baseline) < op.min_samples)
        => /\ op.ret = "False"
           /\ thresh = pre.thresh
           /\ is_calibrated = pre.is_calibrated
           /\ calibration_data = pre.calibration_data
           /\ files = pre.files

\* a failed call made while samples that would move the thresholds are waiting
Wit_C11_FailedFinalize ==
    /\ FinalizeFailed
    /\ Len(calibration_data.ear_baseline) = 1
    /\ Len(calibration_data.gaze_baseline) = 2
    /\ finalize_thresholds(thresh, calibration_data) # thresh

\* C12: finalize_calibration(min_samples) returns true exactly when the ear
\* baseline holds at least min_samples values, whatever the other baselines
\* hold; on success the flag is set, each metric with a non-empty baseline
\* gets the threshold computed from that baseline, each metric with an empty
\* baseline keeps its threshold, and the profile is written (a save that
\* succeeds leaves the record of this user, flag, thresholds and counts).
Thm_C12_FinalizeSuccess ==
    Did("finalize_calibration") =>
        /\ op.ret = "True" <=> Len(pre.calibration_data.ear_baseline) >= op.min_samples
        /\ op.ret = "True" =>
            /\ is_calibrated
            /\ \A n \in ThresholdNames :
                   IF pre.calibration_data[BaselineOf(n)] = <<>>
                   THEN thresh[n] = pre.thresh[n]
                   ELSE thresh[n] =
                        finalize_thresholds(DefaultThresholds, pre.calibration_data)[n]
            /\ op.save \in SaveOutcomes
            /\ op.save = "ok" =>
                   files[calibration_file] =
                       JsonFile([user_id |-> user_id,
                                 is_calibrated |-> TRUE,
                                 thresholds |-> thresh,
                                 calibration_stats |->
                                     [ear_samples |-> Len(calibration_data.ear_baseline),
                                      gaze_samples |-> Len(calibration_data.gaze_baseline),
                                      pitch_samples |-> Len(calibration_data.pitch_baseline)]])

\* a success of a scorer that had loaded a profile and then saw ear and gaze
\* values only
Wit_C12_FinalizeSuccess ==
    /\ FinalizeSucceeded
    /\ op.save = "ok"
    /\ calibration_data.ear_baseline # <<>>
    /\ calibration_data.pitch_baseline = <<>>
    /\ pre.thresh.pitch_thresh # DefaultThresholds.pitch_thresh
    /\ thresh.ear_thresh # pre.thresh.ear_thresh

\* C13 as written: right after a successful finalize_calibration every
\* baseline list is empty.
Cex_C13_BaselinesCleared ==
    FinalizeSucceeded => calibration_data = EmptyCalibrationData

\* C14: within one scorer the thresholds and the calibrated flag change only
\* in a successful finalize_calibration: add_calibration_sample,
\* detect_anomaly, get_thresholds and a failed finalize_calibration leave
\* them as they were, and a get_thresholds call returns what the previous one
\* returned when no finalize_calibration succeeded in between.
Thm_C14_ThresholdFrame ==
    /\ (\/ Did("add_calibration_sample") \/ Did("detect_anomaly")
        \/ Did("get_thresholds") \/ FinalizeFailed)
           => thresh = pre.thresh /\ is_calibrated = pre.is_calibrated
    /\ (Did("get_thresholds") /\ pre.last_get # NoGet) => op.ret = pre.last_get

\* a second get_thresholds after a calibrated profile was queried, with a
\* sample and a failed finalize in between
Wit_C14_ThresholdFrame ==
    /\ Did("get_thresholds")
    /\ pre.last_get # NoGet
    /\ is_calibrated
    /\ adds = MaxSessionAdds
    /\ finalizes = MaxSessionFinalizes
    /\ thresh # DefaultThresholds

\* C15: persistence round trip: when the latest successful
\* finalize_calibration of a scorer saved its profile, a new scorer
\* constructed with the same user_id and calibration file (which it can read)
\* has exactly the thresholds that finalize computed and calibrated = true.
Thm_C15_RoundTrip ==
    (/\ Did("construct") /\ op.readable
     /\ pre.finalized # NoGet /\ pre.finalized.save = "ok"
     /\ user_id = pre.user_id /\ calibration_file = pre.calibration_file)
        => /\ thresh = pre.finalized.thresh
           /\ thresh = pre.thresh
           /\ is_calibrated

\* a scorer constructed over the profile its predecessor computed and saved
Wit_C15_RoundTrip ==
    /\ Did("construct") /\ op.readable /\ op.loaded
    /\ pre.finalized # NoGet /\ pre.finalized.save = "ok"
    /\ user_id = pre.user_id /\ calibration_file = pre.calibration_file
    /\ pre.calibration_data.gaze_baseline # <<>>
    /\ thresh # DefaultThresholds

\* C16: constructing a scorer always completes, and when the calibration
\* file is missing, cannot be read, was cut short or holds the record of
\* another user_id, the scorer has the default thresholds and calibrated =
\* false: nothing of another user's record is applied.
RecordOfOtherUser ==
    /\ files[calibration_file].kind = "json"
    /\ files[calibration_file].data.user_id # user_id

Thm_C16_LoadFallback ==
    Did("construct") =>
        /\ op.loaded \in BOOLEAN
        /\ (\/ files[calibration_file].kind \in {"missing", "truncated"}
            \/ ~op.readable
            \/ RecordOfOtherUser)
               => /\ thresh = DefaultThresholds
                  /\ ~is_calibrated
                  /\ ~op.loaded

\* a scorer constructed over a readable profile that another user calibrated
Wit_C16_LoadFallback ==
    /\ Did("construct") /\ op.readable
    /\ RecordOfOtherUser
    /\ files[calibration_file].data.is_calibrated
    /\ files[calibration_file].data.thresholds # DefaultThresholds
    /\ thresh = DefaultThresholds

\* C17: a finalize_calibration that has enough ear values and whose save
\* fails still returns true with calibrated = true and the newly computed
\* thresholds, and until the next successful finalize the scorer keeps them
\* and get_thresholds returns them.
SaveFailures == {"open_fails", "write_fails"}

Thm_C17_SaveFailureSwallowed ==
    /\ (/\ Did("finalize_calibration")
        /\ Len(pre.calibration_data.ear_baseline) >= op.min_samples
        /\ op.save \in SaveFailures)
           => /\ op.ret = "True"
              /\ is_calibrated
              /\ thresh = finalize_thresholds(pre.thresh, pre.calibration_data)
              /\ finalized # NoGet
    /\ (finalized # NoGet /\ finalized.save \in SaveFailures)
           => /\ is_calibrated
              /\ thresh = finalized.thresh
              /\ Did("get_thresholds") => op.ret = finalized.thresh

\* get_thresholds after a finalize whose save broke off in the middle
Wit_C17_SaveFailureSwallowed ==
    /\ Did("get_thresholds")
    /\ finalized # NoGet
    /\ finalized.save = "write_fails"
    /\ files[calibration_file] = TruncatedFile
    /\ op.ret # DefaultThresholds

\* C18: detect_anomaly returns false on every call made while fewer than 30
\* ear values have been passed to the scorer (the one of the call included),
\* whatever the ear, gaze and pitch values are; it always returns a boolean,
\* and it returns true only from the 30th ear value on.
EarCount == Cardinality({i \in 1..Len(anomaly_log) : anomaly_log[i].ear # None})

Thm_C18_AnomalyWarmup ==
    Did("detect_anomaly") =>
        /\ op.ret \in {"True", "False"}
        /\ EarCount < 30 => op.ret = "False"
        /\ op.ret = "True" => EarCount >= 30

\* the 30th call of a scorer that has seen 29 identical ear values: the
\* variance is zero and the call still returns false
Wit_C18_AnomalyWarmup ==
    /\ Did("detect_anomaly")
    /\ Len(anomaly_log) = 30
    /\ EarCount = 29
    /\ VarBelow(anomaly_history.ear, 100, 1)
    /\ op.ret = "False"

\* C19: in every state reached through construction (over no file, a file
\* cut short, or a record written by a scorer), add_calibration_sample and
\* finalize_calibration, the five thresholds are numbers and the pitch, yaw
\* and roll thresholds are not negative.
Thm_C19_ThresholdInvariant ==
    /\ DOMAIN thresh = ThresholdNames
    /\ \A n \in ThresholdNames : thresh[n] \in Int
    /\ thresh.pitch_thresh >= 0
    /\ thresh.yaw_thresh >= 0
    /\ thresh.roll_thresh >= 0

\* a scorer constructed over the record of a calibration whose pitch, yaw and
\* roll samples were all negative
Wit_C19_ThresholdInvariant ==
    /\ Did("construct") /\ op.loaded
    /\ pre.calibration_data.pitch_baseline = <<-30>>
    /\ pre.calibration_data.yaw_baseline = <<-20>>
    /\ pre.calibration_data.roll_baseline = <<-4>>
    /\ thresh.pitch_thresh = 3000
    /\ thresh.yaw_thresh = 2000
    /\ thresh.roll_thresh = 400

\* C20: after a successful finalize_calibration with a non-empty ear
\* baseline, ear_thresh is 0.9 times the 25th percentile of all the ear
\* values of the baseline, and with a non-empty gaze baseline gaze_thresh is
\* 1.2 times the 75th percentile of the gaze values.
Thm_C20_PercentileThresholds ==
    FinalizeSucceeded =>
        /\ calibration_data.ear_baseline # <<>>
               => thresh.ear_thresh = 9 * Percentile4(calibration_data.ear_baseline, 1)
        /\ calibration_data.gaze_baseline # <<>>
               => thresh.gaze_thresh = 12 * Percentile4(calibration_data.gaze_baseline, 3)

\* ear values 0.200 and 0.260: the 25th percentile is 0.215 and the threshold
\* 0.1935; gaze values 0.30 and 0.10: the 75th percentile is 0.25 and the
\* threshold 0.30
Wit_C20_PercentileThresholds ==
    /\ FinalizeSucceeded
    /\ calibration_data.ear_baseline = <<200, 260>>
    /\ calibration_data.gaze_baseline = <<30, 10>>
    /\ thresh.ear_thresh = 7740
    /\ thresh.gaze_thresh = 1200

-----------------------------------------------------------------------------
(* Properties of PatternRecognizer *)

PrDid(name) == pr_op.name = name

\* the values of one channel that were present, in arrival order
PresentValues(log, channel) ==
    LET present == SelectSeq(log, LAMBDA s : s[channel] # None)
    IN  [i \in 1..Len(present) |-> Val(present[i][channel])]

\* the k most recent entries of seq, or all of them when there are fewer
MostRecent(seq, k) ==
    LET m == IF Len(seq) < k THEN Len(seq) ELSE k
    IN  [i \in 1..m |-> seq[Len(seq) - m + i]]

\* C21: after any sequence of add_sample calls each of the gaze, pitch and
\* ear windows holds the most recent min(n, window_size) present values of
\* its channel in arrival order, and after any sequence of detect_anomaly
\* calls each anomaly history holds the most recent min(n, 100) present
\* values of its channel; nothing absent is stored, no buffer is over capacity.
Thm_C21_SlidingWindows ==
    /\ gaze_window = MostRecent(PresentValues(pr_log, "gaze"), window_size)
    /\ pitch_window = MostRecent(PresentValues(pr_log, "pitch"), window_size)
    /\ ear_window = MostRecent(PresentValues(pr_log, "ear"), window_size)
    /\ anomaly_history.ear = MostRecent(PresentValues(anomaly_log, "ear"), 100)
    /\ anomaly_history.gaze = MostRecent(PresentValues(anomaly_log, "gaze"), 100)
    /\ anomaly_history.pitch = MostRecent(PresentValues(anomaly_log, "pitch"), 100)
    /\ \A w \in {gaze_window, pitch_window, ear_window} : Len(w) <= window_size
    /\ \A ch \in {"ear", "gaze", "pitch"} : Len(anomaly_history[ch]) <= 100

\* more than 100 frames went through both: the recognizer's 60-entry windows
\* and the scorer's 100-entry histories have dropped their oldest values,
\* and the frames without a gaze value left no trace
Wit_C21_SlidingWindows ==
    /\ window_size = 60
    /\ Len(anomaly_log) > 100
    /\ Len(anomaly_history.pitch) = 100
    /\ anomaly_history.pitch[1] # Val(anomaly_log[1].pitch)
    /\ Len(pitch_window) = 60
    /\ pitch_window[1] # Val(pr_log[1].pitch)
    /\ Len(PresentValues(pr_log, "gaze")) < Len(pr_log)
    /\ Len(anomaly_history.gaze) < 100

\* positions of the window where ear is below 0.15 and the sample before, if
\* there is one, is not
FallingEdges(ew) ==
    Cardinality({i \in 1..Len(ew) :
                    /\ ew[i] < EAR_BLINK_THRESHOLD
                    /\ (i = 1 \/ ew[i - 1] >= EAR_BLINK_THRESHOLD)})

\* C22 as written: with at least 60 ear samples the blink_count of
\* detect_blink_pattern is the number of falling edges below 0.15.
Cex_C22_FallingEdges ==
    (PrDid("detect_blink_pattern") /\ Len(ear_window) >= 60)
        => pr_op.ret[2] = FallingEdges(ear_window)

NoSampleBelow(ew) == \A i \in 1..Len(ew) : ew[i] >= EAR_BLINK_THRESHOLD

\* is_natural as the rule for an evaluated window states it
NaturalRule ==
    /\ pr_op.ret[2] >= 0 /\ pr_op.ret[2] <= 3
    /\ ~(Len(ear_window) = window_size /\ pr_op.ret[2] = 0)

\* C23 as written: for every window_size a full ear window without a blink
\* is reported as not natural, and an evaluated window is natural exactly
\* when it has 0 to 3 blinks and is not a full window without blinks.
Cex_C23_FullWindowAnySize ==
    PrDid("detect_blink_pattern") =>
        /\ (Len(ear_window) = window_size /\ NoSampleBelow(ear_window))
               => pr_op.ret[1] = FALSE
        /\ Len(ear_window) >= 60 => (pr_op.ret[1] <=> NaturalRule)

\* C23 (amended): for every window_size of at least 60 a full ear window
\* without a blink is reported as not natural; with a window_size below 60
\* no window is ever evaluated and the result is always (true, 0), also for a
\* full window without a blink; an evaluated window (60 samples or more) is
\* natural exactly when it has 0 to 3 blinks and is not a full window
\* without blinks.
Thm_C23_FullWindowFrom60 ==
    PrDid("detect_blink_pattern") =>
        /\ (window_size >= 60 /\ Len(ear_window) = window_size
            /\ NoSampleBelow(ear_window))
               => pr_op.ret[1] = FALSE
        /\ window_size < 60 => pr_op.ret = <<TRUE, 0>>
        /\ Len(ear_window) >= 60 => (pr_op.ret[1] <=> NaturalRule)

\* a full 60-sample window with open eyes throughout
Wit_C23_FullWindowFrom60 ==
    /\ PrDid("detect_blink_pattern")
    /\ window_size = 60 /\ Len(ear_window) = 60
    /\ NoSampleBelow(ear_window)
    /\ pr_op.ret = <<FALSE, 0>>

\* C24: with too little data every detector answers with its default:
\* reading is false below 20 gaze samples, thinking false below 30 gaze
\* samples, phone false below 30 pitch samples, blink (true, 0) below 60 ear
\* samples, micro-movements true below 30 pitch samples; a recognizer that
\* received fewer than 20 samples has engagement score 0.5.
Thm_C24_InsufficientData ==
    /\ (PrDid("detect_reading_pattern") /\ Len(gaze_window) < 20) => pr_op.ret = FALSE
    /\ (PrDid("detect_thinking_pattern") /\ Len(gaze_window) < 30) => pr_op.ret = FALSE
    /\ (PrDid("detect_phone_pattern") /\ Len(pitch_window) < 30) => pr_op.ret = FALSE
    /\ (PrDid("detect_blink_pattern") /\ Len(ear_window) < 60) => pr_op.ret = <<TRUE, 0>>
    /\ (PrDid("detect_micro_movements") /\ Len(pitch_window) < 30) => pr_op.ret = TRUE
    /\ (PrDid("get_engagement_score") /\ Len(pr_log) < 20) => pr_op.ret = 5
    /\ (PrDid("get_pattern_summary") /\ Len(pr_log) < 20)
           => pr_op.ret = [reading |-> FALSE, thinking |-> FALSE, phone |-> FALSE,
                           natural_blinks |-> TRUE, blink_count |-> 0,
                           micro_movements |-> TRUE, engagement_score |-> 5]

\* 19 frames of the reading signal, whose gaze has already turned five times
Wit_C24_InsufficientData ==
    /\ PrDid("detect_reading_pattern")
    /\ script = "reading"
    /\ Len(gaze_window) = 19
    /\ zero_crossings(gaze_window) >= 3 /\ zero_crossings(gaze_window) <= 8
    /\ pr_op.ret = FALSE

Flag(b) == IF b THEN 1 ELSE 0

\* the score in tenths as the formula states it, before the clamp
ScoreFormula ==
    5 + 3 * Flag(detect_reading_pattern(gaze_window, pitch_window))
      + 1 * Flag(detect_thinking_pattern(gaze_window))
      - 5 * Flag(detect_phone_pattern(pitch_window))
      - 3 * Flag(~detect_blink_pattern(ear_window, window_size)[1])
      - 3 * Flag(~detect_micro_movements(pitch_window))

\* C25: get_engagement_score is clamp(0.5 + 0.3 reading + 0.1 thinking
\* - 0.5 phone - 0.3 unnatural blinks - 0.3 no micro-movements, 0, 1) over
\* the current detector results, hence within [0, 1]; get_pattern_summary
\* reports the same detector results and score; neither writes a window.
Thm_C25_EngagementScore ==
    /\ PrDid("get_engagement_score") =>
           /\ pr_op.ret = Clamp(ScoreFormula, 0, 10)
           /\ pr_op.ret >= 0 /\ pr_op.ret <= 10
           /\ pr_pre = Windows(gaze_window, pitch_window, ear_window)
    /\ PrDid("get_pattern_summary") =>
           /\ pr_op.ret.reading = detect_reading_pattern(gaze_window, pitch_window)
           /\ pr_op.ret.thinking = detect_thinking_pattern(gaze_window)
           /\ pr_op.ret.phone = detect_phone_pattern(pitch_window)
           /\ <<pr_op.ret.natural_blinks, pr_op.ret.blink_count>>
                  = detect_blink_pattern(ear_window, window_size)
           /\ pr_op.ret.micro_movements = detect_micro_movements(pitch_window)
           /\ pr_op.ret.engagement_score = Clamp(ScoreFormula, 0, 10)
           /\ pr_pre = Windows(gaze_window, pitch_window, ear_window)

\* a head held still at a steep angle for a full window: the penalties add
\* up to -0.6 and the score is 0
Wit_C25_EngagementScore ==
    /\ PrDid("get_engagement_score")
    /\ ScoreFormula = -6
    /\ pr_op.ret = 0

-----------------------------------------------------------------------------
(* Properties of SessionServerStore and of the server *)

SvDid(name) == sv_op.name = name

\* the session document the latest store call worked on, before and after it
DocBefore == sv_pre.sessions[sv_op.sid]
DocAfter == sessions[sv_op.sid]

StoreUntouched == sessions = sv_pre.sessions /\ intervals = sv_pre.intervals

\* C26: mark_distracted on a session that already has an open interval
\* changes no document, so currentIntervalStart keeps the time of the first
\* mark_distracted; mark_focused on a session without an open interval
\* returns None and writes no interval document and no update of the session.
Thm_C26_RepeatedEdges ==
    /\ (SvDid("mark_distracted") /\ DocBefore.currentIntervalStart # None)
           => StoreUntouched
    /\ (SvDid("mark_focused") /\ DocBefore.currentIntervalStart = None)
           => (sv_op.ret = None /\ StoreUntouched)

\* a second mark_distracted, at a later time than the one that opened the
\* interval
Wit_C26_RepeatedEdges ==
    /\ SvDid("mark_distracted")
    /\ DocBefore.currentIntervalStart # None
    /\ DocBefore.status = "active"
    /\ sv_op.at > Val(DocBefore.currentIntervalStart)

\* the interval document stop_session must write for the interval that was
\* open when it was called
ClosingDocument ==
    [session |-> sv_op.sid, startAt |-> Val(DocBefore.currentIntervalStart),
     endAt |-> sv_op.at,
     durationMs |-> sv_op.at - Val(DocBefore.currentIntervalStart),
     idx |-> DocBefore.intervalCount + 1, source |-> "state-detector",
     createdAt |-> DocAfter.lastUpdated]

\* focusScore = (1 - distractedTotalMs / elapsedMs) * 100 when elapsedMs > 0,
\* else 0, on the fields of one document
ScoreMatches(doc) ==
    /\ doc.elapsedMs # None
    /\ doc.focusScore # None
    /\ LET f == Val(doc.focusScore)
           e == Val(doc.elapsedMs)
       IN  /\ f.den > 0
           /\ IF e > 0
              THEN f.num * e = 100 * (e - doc.distractedTotalMs) * f.den
              ELSE f.num = 0

\* C27: if an interval is open when stop_session is called, exactly one
\* interval document, ending at stopped_at, is written and its duration is
\* part of the distractedTotalMs the score is computed from; after
\* stop_session the session is completed, has no currentIntervalStart, and
\* its focusScore is (1 - distractedTotalMs / elapsedMs) * 100 when
\* elapsedMs > 0 and 0 otherwise.
Thm_C27_StopClosesInterval ==
    SvDid("stop_session") =>
        /\ DocBefore.currentIntervalStart # None =>
               /\ intervals = Append(sv_pre.intervals, ClosingDocument)
               /\ DocAfter.distractedTotalMs =
                      DocBefore.distractedTotalMs + ClosingDocument.durationMs
               /\ DocAfter.intervalCount = DocBefore.intervalCount + 1
        /\ DocBefore.currentIntervalStart = None => intervals = sv_pre.intervals
        /\ DocAfter.status = "completed"
        /\ DocAfter.currentIntervalStart = None
        /\ DocAfter.stoppedAt = Some(sv_op.at)
        /\ DocAfter.elapsedMs = Some(sv_op.at - DocBefore.startedAt)
        /\ ScoreMatches(DocAfter)
        /\ sv_op.ret = <<Val(DocAfter.elapsedMs), Val(DocAfter.focusScore)>>

\* a session stopped while distracted, after a time focused
Wit_C27_StopClosesInterval ==
    /\ SvDid("stop_session")
    /\ DocBefore.currentIntervalStart # None
    /\ Val(DocAfter.elapsedMs) > DocAfter.distractedTotalMs
    /\ DocAfter.distractedTotalMs > 0
    /\ Val(DocAfter.focusScore).num > 0

\* no store call is in progress
Quiescent == \A th \in Threads : frames[th].pc = "idle"

IntervalsOf(sid) == SelectSeq(intervals, LAMBDA d : d.session = sid)

DurationsOf(sid) == [i \in 1..Len(IntervalsOf(sid)) |-> IntervalsOf(sid)[i].durationMs]

\* C28: when mark_focused and stop_session calls for the same session
\* interleave, each opened interval is recorded exactly once: once the calls
\* have returned, intervalCount is the number of interval documents of the
\* session, their idx values are distinct, and distractedTotalMs is the sum
\* of their durationMs.
Cex_C28_ConsistentAggregates ==
    Quiescent =>
        \A sid \in SessionIds :
            LET docs == IntervalsOf(sid)
            IN  /\ sessions[sid].intervalCount = Len(docs)
                /\ \A i, j \in 1..Len(docs) : docs[i].idx = docs[j].idx => i = j
                /\ sessions[sid].distractedTotalMs = SumSeq(DurationsOf(sid))

\* what the latest request found: a session held in memory
HeldBefore == sv_pre.session_store # None /\ sv_pre.session_id # None

\* C29: a /session/start request served while a session is held creates no
\* session document and returns the id of the held session; since
\* /session/start and /session/edge create a document only when no session
\* is held, at most one session document is created between two stops, also
\* when the requests are handled concurrently.
Cex_C29_OneDocumentPerSession ==
    /\ (SvDid("session_start") /\ HeldBefore) =>
           (sessions = sv_pre.sessions /\ sv_op.sessionId = sv_pre.session_id)
    /\ Len(sessions) <= docs_at_stop + 1

\* C30: after /session/stop has returned, whether stop_session succeeded or
\* raised, the server holds no session; a /session/stop that finds no
\* session held returns noop and calls no store method; /stop attempts the
\* finalization of a held session and clears it, whether or not the vision
\* process was running.
Thm_C30_StopClears ==
    /\ SvDid("session_stop") =>
           /\ session_store = None /\ session_id = None
           /\ HeldBefore => sv_op.called = <<"stop_session">>
           /\ ~HeldBefore =>
                  (sv_op.status = "noop" /\ sv_op.called = <<>> /\ StoreUntouched)
    /\ SvDid("stop") =>
           /\ session_store = None /\ session_id = None
           /\ HeldBefore => sv_op.called = <<"stop_session">>
           /\ (HeldBefore /\ sv_op.sessionId # None) =>
                  sessions[Val(sv_op.sessionId)].status = "completed"
           /\ ~HeldBefore => (sv_op.called = <<>> /\ StoreUntouched)

\* a second /session/stop, after one whose finalization raised: the session
\* document is still active, no session is held, and the answer is noop
Wit_C30_StopClears ==
    /\ SvDid("session_stop")
    /\ sv_op.status = "noop"
    /\ Len(sessions) = 1
    /\ sessions[1].status = "active"
    /\ docs_at_stop = 1

\* the store calls that work on an existing session
SessionCalls == {"mark_distracted", "mark_focused", "stop_session"}

\* C39: completed is terminal: a mark_distracted, mark_focused or
\* stop_session call on a session that stop_session has completed opens no
\* interval, writes no interval document, and leaves distractedTotalMs,
\* intervalCount, stoppedAt, elapsedMs and focusScore as they were.
Cex_C39_CompletedTerminal ==
    (sv_op.name \in SessionCalls /\ DocBefore.status = "completed") =>
        /\ intervals = sv_pre.intervals
        /\ DocAfter.currentIntervalStart = DocBefore.currentIntervalStart
        /\ DocAfter.distractedTotalMs = DocBefore.distractedTotalMs
        /\ DocAfter.intervalCount = DocBefore.intervalCount
        /\ DocAfter.stoppedAt = DocBefore.stoppedAt
        /\ DocAfter.elapsedMs = DocBefore.elapsedMs
        /\ DocAfter.focusScore = DocBefore.focusScore

\* the aggregates of session sid agree with its interval documents, whose
\* idx values are 1, 2, ... in the order the documents were written
AggregatesAgree(sid) ==
    LET docs == IntervalsOf(sid)
    IN  /\ sessions[sid].intervalCount = Len(docs)
        /\ \A i \in 1..Len(docs) : docs[i].idx = i
        /\ sessions[sid].distractedTotalMs = SumSeq(DurationsOf(sid))

\* the recorded intervals of session sid, and its open interval if any, do
\* not overlap: each starts no earlier than the one before it ended
NoOverlap(sid) ==
    LET docs == IntervalsOf(sid)
    IN  /\ \A i \in 1..Len(docs) : \A j \in 1..Len(docs) :
               i < j => docs[i].endAt <= docs[j].startAt
        /\ (sessions[sid].currentIntervalStart # None /\ Len(docs) > 0) =>
               docs[Len(docs)].endAt <= Val(sessions[sid].currentIntervalStart)

\* 0 <= distractedTotalMs <= elapsedMs and 0 <= focusScore <= 100, once
\* stop_session has written them
ScoreInRange(sid) ==
    sessions[sid].elapsedMs # None =>
        LET f == Val(sessions[sid].focusScore)
        IN  /\ 0 <= sessions[sid].distractedTotalMs
            /\ sessions[sid].distractedTotalMs <= Val(sessions[sid].elapsedMs)
            /\ 0 <= f.num
            /\ f.num <= 100 * f.den

-----------------------------------------------------------------------------
(* Further properties of ContextAnalyzer *)

DefaultQuery ==
    /\ sus_arg.threshold_halves = DEFAULT_THRESHOLD_HALVES
    /\ sus_arg.fps = DEFAULT_FPS

-----------------------------------------------------------------------------
(* Further properties of PatternRecognizer *)

NonDecreasing(seq) == \A i \in 1..(Len(seq) - 1) : seq[i] <= seq[i + 1]
NonIncreasing(seq) == \A i \in 1..(Len(seq) - 1) : seq[i] >= seq[i + 1]

\* C37: detect_reading_pattern returns true only for a gaze window that
\* oscillates; a window that is monotonically non-decreasing or
\* non-increasing, plateaus included, is never classified as reading.
Cex_C37_MonotoneNotReading ==
    (PrDid("detect_reading_pattern")
        /\ (NonDecreasing(gaze_window) \/ NonIncreasing(gaze_window)))
    => pr_op.ret = FALSE

-----------------------------------------------------------------------------
(* Further properties of AdaptiveScorer *)

\* the last 30 values of a channel that holds at least 30 have a variance
\* below the bound num / den
EvidenceBelow(seq, num, den) == Len(seq) >= 30 /\ VarBelow(seq, num, den)

\* C35: detect_anomaly reports an anomaly only on the evidence of 30 values
\* per channel: a gaze or pitch history of fewer than 30 values never causes
\* it to return true.
Cex_C35_ThirtyPerChannel ==
    (Did("detect_anomaly") /\ op.ret = "True")
    => \/ EvidenceBelow(anomaly_history.ear, 100, 1)
       \/ EvidenceBelow(anomaly_history.gaze, 10, 1)
       \/ EvidenceBelow(anomaly_history.pitch, 1, 2)


\* C36: a save that fails keeps the earlier calibration: when
\* _save_calibration fails at any step during finalize_calibration, the
\* record persisted before is intact, and a scorer constructed afterwards
\* loads its thresholds and calibrated flag.
Cex_C36_FailedSaveKeepsRecord ==
    (/\ Did("finalize_calibration")
     /\ op.save \in SaveFailures
     /\ pre.files[calibration_file].kind = "json")
    => /\ files[calibration_file] = pre.files[calibration_file]
       /\ load_calibration(files[calibration_file], TRUE, user_id, DefaultThresholds)
              = load_calibration(pre.files[calibration_file], TRUE, user_id,
                                 DefaultThresholds)

-----------------------------------------------------------------------------
(* Properties of ObjectDetector *)

OdVoted == od_op.name = "detect_objects" /\ od_op.path = "voted"

HistoryBounded == \A obj \in ObjectNames : Len(detection_history[obj]) <= history_length

-----------------------------------------------------------------------------
(* Properties of the driver loops *)

Iterated == dr_op.name = "iteration"

\* the bodies of the posts of this iteration to url by the distraction path
PathBodies(url) ==
    {dr_op.posts[i].body : i \in {j \in 1..Len(dr_op.posts) :
                                     /\ dr_op.posts[j].url = url
                                     /\ dr_op.posts[j].path = "distraction"}}

PathCount(url) ==
    Cardinality({j \in 1..Len(dr_op.posts) :
                    /\ dr_op.posts[j].url = url
                    /\ dr_op.posts[j].path = "distraction"})

\* what the next post of an alternating series that starts with ON carries
NextAfter(latest) == IF latest = None THEN TRUE ELSE ~Val(latest)

Flipped == last_distracted # dr_pre.locals.last_distracted

\* the /light posts of the distraction path: one per flip, carrying the new
\* state, none without a flip
LightPostsAlternate ==
    Iterated =>
        /\ Flipped => (PathCount("/light") = 1 /\ PathBodies("/light") = {last_distracted})
        /\ ~Flipped => PathCount("/light") = 0
        /\ PathBodies("/light") \subseteq {NextAfter(dr_pre.path_light)}

EdgePostsAlternate ==
    Iterated =>
        /\ Flipped => (PathCount("/session/edge") = 1
                       /\ PathBodies("/session/edge") = {last_distracted})
        /\ ~Flipped => PathCount("/session/edge") = 0
        /\ PathBodies("/session/edge") \subseteq {NextAfter(dr_pre.path_edge)}

\* C31: in both drivers the distraction path posts {light_on: true} and
\* {distracted: true} once when its distracted state flips from false to
\* true, and {light_on: false} and {distracted: false} once when it flips
\* back: its posts alternate ON, OFF, ON, ..., starting with ON, and none is
\* repeated while the state is unchanged.
Cex_C31_EdgeTriggered == LightPostsAlternate /\ EdgePostsAlternate

\* C32: the distraction path of enhanced_main posts {light_on: true} only on
\* a frame with a face whose verdict is distracted with an activity other
\* than Thinking, and only when more than 5.0 s have passed since
\* distraction_start_time; every frame with a face that is not distracted, or
\* is Thinking, resets distraction_start_time; so the flag is never raised
\* for a duration that should_ignore_brief_distraction accepts.
PathRaisedFlag ==
    /\ Iterated /\ driver = "enhanced"
    /\ TRUE \in PathBodies("/light")

Thm_C32_BriefSuppressed ==
    /\ PathRaisedFlag =>
          /\ dr_op.face /\ dr_op.distracted /\ dr_op.activity # THINKING
          /\ distraction_start_time # None
          /\ t_now - Val(distraction_start_time) > DISTRACTION_FLAG_TIME
          /\ ~should_ignore_brief_distraction(t_now - Val(distraction_start_time))
    /\ (/\ Iterated /\ driver = "enhanced" /\ dr_op.face
        /\ (~dr_op.distracted \/ dr_op.activity = THINKING))
           => distraction_start_time = None

\* the flag is raised on the first frame that comes more than 5.0 s after
\* the distraction began: the frame before came at exactly 5.0 s
Wit_C32_BriefSuppressed ==
    /\ PathRaisedFlag
    /\ t_now - Val(distraction_start_time) = DISTRACTION_FLAG_TIME + dr_op.elapsed
    /\ dr_pre.locals.distraction_start_time = distraction_start_time
    /\ ~dr_pre.locals.last_distracted

\* C40: at the end of every loop iteration, if last_distracted is true or
\* last_face_detected is false, the latest light command the driver posted
\* was light_on = true.
Cex_C40_LightFollowsLatches ==
    (Iterated /\ (last_distracted \/ ~last_face_detected))
    => last_light = Some(TRUE)

====
